---- MODULE Spec2Model ----
(***************************************************************************)
(* Secrets management core of monobase-infra: the GCP Secret Manager       *)
(* provider (provider.ts), the ExternalSecret validator (validator.ts)     *)
(* and the sync pipeline of scripts/secrets.ts.                            *)
(*                                                                         *)
(* Three state machines share this module:                                 *)
(*   SpecUpsert  two runs calling SecretProvider against one project       *)
(*   SpecWait    waitForExternalSecretSync polling one ExternalSecret      *)
(*   SpecSync    syncCommand: discover, check, generate, validate          *)
(***************************************************************************)
EXTENDS Integers, Sequences, FiniteSets, TLC

VARIABLES
    \* ---- GCP Secret Manager project (shared by SpecUpsert and SpecSync)
    gcp,        \* remoteKey -> [exists, versions]: the project's secrets
    gcp0,       \* the project as it was when the run(s) started (history)
    \* ---- SpecUpsert: two runs using one SecretProvider API
    rpc,        \* run -> position inside the provider method it is executing
    rkey,       \* run -> remoteKey argument of the method in progress
    rval,       \* run -> value argument of the method in progress
    rres,       \* run -> outcomes of the run's finished calls, in call order
    rstatus,    \* run -> SecretStatus returned by its last getSecretStatus
    rlog,       \* run -> sequence of the calls the run has issued (history)
    overlapped, \* remoteKey -> an upsert on it began while another was running
    \* ---- SpecWait: one call of waitForExternalSecretSync
    wpc,        \* "loop" (at the while test), "sleep" (in setTimeout), "done"
    wtimeout,   \* timeoutMs argument
    welapsed,   \* Date.now() - startTime, in ms
    wobserved,  \* the ExternalSecret as the latest kubectl get returned it
    wresult,    \* the value the call returned
    wpolls,     \* getExternalSecretStatus calls so far, counted to CountCap
    wsleeps,    \* poll-interval sleeps so far, counted to CountCap
    wpollAt,    \* elapsed time at which the latest poll started (history)
    \* ---- SpecSync: one run of `secrets.ts sync`
    opts,       \* the run's inputs: [command, dryRun, yes, configured, scan]
    pc,         \* position of the run inside syncCommand
    stage,      \* the command syncCommand is in: discover, check, generate, validate
    exitCode,   \* -1 while running, then the process's exit code
    secrets,    \* results.secrets of the command in progress
    inflight,   \* checkSecrets: the current batch's getSecretStatus promises
    statuses,   \* checkSecrets: the Map remoteKey -> SecretStatus, as its entries
    report,     \* checkCommand: [exists, missing], the totals it prints
    plan,       \* generateCommand: [missing, autoGenerate, manualInput]
    confirm,    \* generateCommand: how the confirmation went
    secretValues, \* generateCommand: the Map remoteKey -> value, in insertion order
    created,    \* generateCommand: [at, count, failed]: the create loop
    vreads,     \* validateExternalSecrets: statuses pushed so far, in read order
    validation, \* validateExternalSecrets: the ValidationResult
    cluster,    \* the ExternalSecrets read so far, as the cluster holds them now
    hist,       \* history: stages begun, backend and cluster calls made, faults
    \* ---- SpecScan: one call of scanValuesFiles
    spc,        \* "parsing" (in the loop over the files), "returned", "rejected"
    sglob,      \* the values files glob found, in order
    sparsed,    \* what parseValuesFile returned for each file parsed so far
    sresult,    \* the ScanResults returned: [secrets, totalSecrets, secretsWithGenerator]
    sall,       \* allFiles: every file the two glob patterns matched, in order
    sfilter,    \* options.deployment, "" when not given
    sprior,     \* the results the earlier calls returned (history)
    \* ---- generateSecretValue (SpecGenerate)
    kpc,        \* position in the call: "called", "drawn", "returned", "threw"
    kgen,       \* the generator configuration: [type, length]
    kbuf,       \* the buffer randomBytes returned
    kvalue,     \* the string returned, as its characters
    \* ---- concurrent runs of generateCommand (SpecRace)
    race        \* run -> [pc, keys, statuses, missing, at, log, created]

upsertVars == <<rpc, rkey, rval, rres, rstatus, rlog, overlapped>>
gcpVars == <<gcp, gcp0>>
waitVars == <<wpc, wtimeout, welapsed, wobserved, wresult, wpolls, wsleeps, wpollAt>>
syncVars == <<opts, pc, stage, exitCode, secrets, inflight, statuses, report, plan, confirm,
              secretValues, created, vreads, validation, cluster, hist>>
scanVars == <<spc, sglob, sparsed, sresult, sall, sfilter, sprior>>
genVars == <<kpc, kgen, kbuf, kvalue>>
nonUpsertVars == <<waitVars, syncVars, scanVars, genVars, race>>
nonWaitVars == <<gcpVars, upsertVars, syncVars, scanVars, genVars, race>>
nonScanVars == <<gcpVars, upsertVars, waitVars, syncVars, genVars, race>>
nonGenVars == <<gcpVars, upsertVars, waitVars, syncVars, scanVars, race>>
nonRaceVars == <<upsertVars, waitVars, syncVars, scanVars, genVars>>
vars == <<gcp, gcp0, rpc, rkey, rval, rres, rstatus, rlog, overlapped,
          wpc, wtimeout, welapsed, wobserved, wresult, wpolls, wsleeps, wpollAt,
          opts, pc, stage, exitCode, secrets, inflight, statuses, report, plan, confirm,
          secretValues, created, vreads, validation, cluster, hist,
          spc, sglob, sparsed, sresult, sall, sfilter, sprior,
          kpc, kgen, kbuf, kvalue, race>>

(***************************************************************************)
(* Bounds and small input sets                                             *)
(***************************************************************************)
Keys == {"k1", "k2"}
Runs == {"runA", "runB"}
MaxCalls == 3               \* provider calls issued in one behaviour, all runs

\* History counters stop counting here: the claims tell the first poll
\* from the later ones, not the later ones from each other.
CountCap == 2

Min(a, b) == IF a < b THEN a ELSE b

RECURSIVE SumOver(_, _)
SumOver(S, f) ==
    IF S = {} THEN 0
    ELSE LET x == CHOOSE y \in S : TRUE IN f[x] + SumOver(S \ {x}, f)

(***************************************************************************)
(* GCP Secret Manager as the provider uses it.  Rejections carry the name   *)
(* of the gRPC status: NOT_FOUND is code 5, ALREADY_EXISTS code 6,         *)
(* PERMISSION_DENIED code 7.                                               *)
(***************************************************************************)
NoSecret == [exists |-> FALSE, versions |-> <<>>]
\* A secret value: where it came from and of what kind it is.
OldValue == [src |-> "old", kind |-> ""]

\* client.getSecret({name}): resolves when the secret exists, rejects with
\* code 5 otherwise.
ClientGetSecret(store, k) ==
    IF store[k].exists THEN "ok" ELSE "NOT_FOUND"

\* client.createSecret({parent, secretId}): a secret with no version yet;
\* rejects with code 6 when the id is taken.
ClientCreateSecret(store, k) ==
    IF store[k].exists
    THEN [err |-> "ALREADY_EXISTS", store |-> store]
    ELSE [err |-> "none",
          store |-> [store EXCEPT ![k] = [exists |-> TRUE, versions |-> <<>>]]]

\* client.addSecretVersion({parent, payload}): appends one version.
ClientAddSecretVersion(store, k, v) ==
    IF ~store[k].exists
    THEN [err |-> "NOT_FOUND", store |-> store]
    ELSE [err |-> "none",
          store |-> [store EXCEPT ![k].versions = Append(@, v)]]

\* client.listSecretVersions({parent, pageSize}, {autoPaginate: false}):
\* one page, newest version first, of at most pageSize versions.
ClientListSecretVersions(store, k, pageSize) ==
    LET all == store[k].versions
        n   == Min(Len(all), pageSize)
    IN [i \in 1..n |-> all[Len(all) + 1 - i]]

\* The pageSize getSecretStatus asks for.
StatusPageSize == 1

\* getSecretStatus, success branch: versionCount is versions.length of the
\* page it listed.
SecretStatusOf(store, k) ==
    [remoteKey |-> k, exists |-> TRUE,
     versionCount |-> Len(ClientListSecretVersions(store, k, StatusPageSize))]

\* getSecretStatus, NOT_FOUND branch: no versionCount field (modelled as -1).
SecretStatusMissing(k) ==
    [remoteKey |-> k, exists |-> FALSE, versionCount |-> -1]

NoStatus == [remoteKey |-> "", exists |-> FALSE, versionCount |-> -1]

(***************************************************************************)
(* SpecUpsert: SecretProvider methods called by two concurrent runs        *)
(***************************************************************************)
CallsIssued == SumOver(Runs, [r \in Runs |-> Len(rlog[r])])

UpsertInProgress(r) ==
    rpc[r] \in {"secretExists", "updateSecret", "createSecret", "addFirstVersion"}

\* The value a run passes on its n-th call: distinct per run and call.
ValueOf(r, n) == [src |-> r, kind |-> ToString(n)]

InitGcp ==
    /\ gcp \in [Keys -> {NoSecret, [exists |-> TRUE, versions |-> <<OldValue>>]}]
    /\ gcp0 = gcp

\* The variables of a machine that takes no part in a specification.
UpsertUnused ==
    /\ rpc = [r \in Runs |-> "idle"]
    /\ rkey = [r \in Runs |-> "k1"]
    /\ rval = [r \in Runs |-> ValueOf(r, 0)]
    /\ rres = [r \in Runs |-> <<>>]
    /\ rstatus = [r \in Runs |-> NoStatus]
    /\ rlog = [r \in Runs |-> <<>>]
    /\ overlapped = [k \in Keys |-> FALSE]

GcpUnused ==
    /\ gcp = [k \in Keys |-> NoSecret]
    /\ gcp0 = gcp

WaitUnused ==
    /\ wpc = "done"
    /\ wtimeout = 0
    /\ welapsed = 0
    /\ wobserved = [found |-> FALSE]
    /\ wresult = [error |-> "none"]
    /\ wpolls = 0
    /\ wsleeps = 0
    /\ wpollAt = 0

SyncUnused ==
    /\ opts = [dryRun |-> FALSE]
    /\ pc = "end"
    /\ stage = "none"
    /\ exitCode = 0
    /\ secrets = <<>>
    /\ inflight = <<>>
    /\ statuses = <<>>
    /\ report = <<>>
    /\ plan = <<>>
    /\ confirm = "unasked"
    /\ secretValues = <<>>
    /\ created = <<>>
    /\ vreads = <<>>
    /\ validation = <<>>
    /\ cluster = <<>>
    /\ hist = <<>>

RaceUnused == race = <<>>

GenUnused ==
    /\ kpc = "returned"
    /\ kgen = <<>>
    /\ kbuf = <<>>
    /\ kvalue = <<>>

ScanUnused ==
    /\ spc = "returned"
    /\ sglob = <<>>
    /\ sparsed = <<>>
    /\ sresult = <<>>
    /\ sall = <<>>
    /\ sfilter = ""
    /\ sprior = <<>>

InitUpsert ==
    /\ InitGcp
    /\ WaitUnused
    /\ SyncUnused
    /\ ScanUnused
    /\ GenUnused
    /\ RaceUnused
    /\ rpc = [r \in Runs |-> "idle"]
    /\ rkey = [r \in Runs |-> "k1"]
    /\ rval = [r \in Runs |-> ValueOf(r, 0)]
    /\ rres = [r \in Runs |-> <<>>]
    /\ rstatus = [r \in Runs |-> NoStatus]
    /\ rlog = [r \in Runs |-> <<>>]
    /\ overlapped = [k \in Keys |-> FALSE]

\* upsertSecret(remoteKey, value) is entered.
UpsertCall(r, k) ==
    /\ rpc[r] = "idle"
    /\ CallsIssued < MaxCalls
    /\ rpc' = [rpc EXCEPT ![r] = "secretExists"]
    /\ rkey' = [rkey EXCEPT ![r] = k]
    /\ rval' = [rval EXCEPT ![r] = ValueOf(r, Len(rlog[r]) + 1)]
    /\ rlog' = [rlog EXCEPT ![r] = Append(@, <<"upsert", k>>)]
    /\ overlapped' = [overlapped EXCEPT ![k] =
                        @ \/ \E o \in Runs \ {r} : UpsertInProgress(o) /\ rkey[o] = k]
    /\ UNCHANGED <<gcp, gcp0, rres, rstatus, nonUpsertVars>>

\* const exists = await this.secretExists(remoteKey); then the dispatch.
SecretExists(r) ==
    /\ rpc[r] = "secretExists"
    /\ rpc' = [rpc EXCEPT ![r] =
                 IF ClientGetSecret(gcp, rkey[r]) = "ok"
                 THEN "updateSecret" ELSE "createSecret"]
    /\ UNCHANGED <<gcp, gcp0, rkey, rval, rres, rstatus, rlog, overlapped, nonUpsertVars>>

\* updateSecret: one addSecretVersion; upsert then returns {created: false}.
UpdateSecret(r) ==
    /\ rpc[r] = "updateSecret"
    /\ LET out == ClientAddSecretVersion(gcp, rkey[r], rval[r]) IN
        /\ gcp' = out.store
        /\ rres' = [rres EXCEPT ![r] =
                      Append(@, IF out.err = "none" THEN "updated" ELSE out.err)]
    /\ rpc' = [rpc EXCEPT ![r] = "idle"]
    /\ UNCHANGED <<gcp0, rkey, rval, rstatus, rlog, overlapped, nonUpsertVars>>

\* createSecret, first await: client.createSecret.  A rejection leaves
\* createSecret, and upsertSecret with it.
CreateSecret(r) ==
    /\ rpc[r] = "createSecret"
    /\ LET out == ClientCreateSecret(gcp, rkey[r]) IN
        /\ gcp' = out.store
        /\ rpc' = [rpc EXCEPT ![r] =
                     IF out.err = "none" THEN "addFirstVersion" ELSE "idle"]
        /\ rres' = [rres EXCEPT ![r] =
                      IF out.err = "none" THEN @ ELSE Append(@, out.err)]
    /\ UNCHANGED <<gcp0, rkey, rval, rstatus, rlog, overlapped, nonUpsertVars>>

\* createSecret, second await: the first version; upsert returns
\* {created: true}.
AddFirstVersion(r) ==
    /\ rpc[r] = "addFirstVersion"
    /\ LET out == ClientAddSecretVersion(gcp, rkey[r], rval[r]) IN
        /\ gcp' = out.store
        /\ rres' = [rres EXCEPT ![r] =
                      Append(@, IF out.err = "none" THEN "created" ELSE out.err)]
    /\ rpc' = [rpc EXCEPT ![r] = "idle"]
    /\ UNCHANGED <<gcp0, rkey, rval, rstatus, rlog, overlapped, nonUpsertVars>>

\* getSecretStatus(remoteKey) is entered.
StatusCall(r, k) ==
    /\ rpc[r] = "idle"
    /\ CallsIssued < MaxCalls
    /\ rpc' = [rpc EXCEPT ![r] = "statusGet"]
    /\ rkey' = [rkey EXCEPT ![r] = k]
    /\ rlog' = [rlog EXCEPT ![r] = Append(@, <<"status", k>>)]
    /\ UNCHANGED <<gcp, gcp0, rval, rres, rstatus, overlapped, nonUpsertVars>>

\* getSecretStatus, first await: getSecret; NOT_FOUND is caught and
\* returned as {exists: false}.
StatusGet(r) ==
    /\ rpc[r] = "statusGet"
    /\ IF ClientGetSecret(gcp, rkey[r]) = "ok"
       THEN /\ rpc' = [rpc EXCEPT ![r] = "statusList"]
            /\ UNCHANGED <<rstatus, rres>>
       ELSE /\ rpc' = [rpc EXCEPT ![r] = "idle"]
            /\ rstatus' = [rstatus EXCEPT ![r] = SecretStatusMissing(rkey[r])]
            /\ rres' = [rres EXCEPT ![r] = Append(@, "status")]
    /\ UNCHANGED <<gcp, gcp0, rkey, rval, rlog, overlapped, nonUpsertVars>>

\* getSecretStatus, second await: listSecretVersions, then the result.
StatusList(r) ==
    /\ rpc[r] = "statusList"
    /\ rstatus' = [rstatus EXCEPT ![r] = SecretStatusOf(gcp, rkey[r])]
    /\ rres' = [rres EXCEPT ![r] = Append(@, "status")]
    /\ rpc' = [rpc EXCEPT ![r] = "idle"]
    /\ UNCHANGED <<gcp, gcp0, rkey, rval, rlog, overlapped, nonUpsertVars>>

NextUpsert ==
    \E r \in Runs :
        \/ \E k \in Keys : UpsertCall(r, k)
        \/ SecretExists(r)
        \/ UpdateSecret(r)
        \/ CreateSecret(r)
        \/ AddFirstVersion(r)
        \/ \E k \in Keys : StatusCall(r, k)
        \/ StatusGet(r)
        \/ StatusList(r)

SpecUpsert == InitUpsert /\ [][NextUpsert]_vars

(***************************************************************************)
(* Claims on the provider                                                  *)
(***************************************************************************)
OnlyUpsertsOf(k) ==
    \A r \in Runs : rlog[r] = << <<"upsert", k>> >>

\* C1: two upserts of one remoteKey, issued concurrently by two runs while
\* the key is absent, both complete without a duplicate-resource
\* (ALREADY_EXISTS) error, whatever the interleaving of their steps.
C1_ConcurrentUpsertNoDuplicate ==
    \A k \in Keys :
        (~gcp0[k].exists /\ OnlyUpsertsOf(k)) =>
            \A r \in Runs : \A i \in 1..Len(rres[r]) :
                rres[r][i] # "ALREADY_EXISTS"

\* C2: upsert(k, v1) then upsert(k, v2), one after the other, on a key that
\* was absent never errors, and the status(k) that follows reports
\* exists = true with versionCount = 2.
C2_TwoUpsertsCountTwo ==
    \A r \in Runs : \A k \in Keys :
        ( /\ ~gcp0[k].exists
          /\ \A o \in Runs \ {r} : rlog[o] = <<>>
          /\ rlog[r] = << <<"upsert", k>>, <<"upsert", k>>, <<"status", k>> >>
          /\ rpc[r] = "idle" )
        => /\ rres[r] = <<"created", "updated", "status">>
           /\ rstatus[r].exists
           /\ rstatus[r].versionCount = 2

(***************************************************************************)
(* The ExternalSecret validator: getExternalSecretStatus                   *)
(***************************************************************************)
\* What `kubectl get externalsecret NAME -n NS -o json` gives: a failure
\* (no such object, no cluster, unparsable output) or the object, of which
\* the code reads status.conditions.  A condition type that the list does
\* not hold is Absent.
Absent == [present |-> FALSE, status |-> "", message |-> ""]
CondStatuses == {"True", "False", "Unknown"}
Messages == {"", "m1", "m2"}
Conditions ==
    {Absent} \cup [present : {TRUE}, status : CondStatuses, message : Messages]
NotFound == [found |-> FALSE, Ready |-> Absent, SecretSynced |-> Absent]
ExternalSecrets ==
    {NotFound} \cup [found : {TRUE}, Ready : Conditions, SecretSynced : Conditions]

NotFoundMessage == "ExternalSecret not found"
TimeoutMessage == "Timeout waiting for ExternalSecret to sync"

\* readyCondition?.status === "True"
IsTrue(c) == c.present /\ c.status = "True"
\* readyCondition?.message (truthy)
HasMessage(c) == c.present /\ c.message # ""

\* mutant: synced is taken from the Ready condition.
GetExternalSecretStatus_SyncedFromReady(o) ==
    IF ~o.found
    THEN [exists |-> FALSE, synced |-> FALSE, ready |-> FALSE,
          errorMessage |-> NotFoundMessage]
    ELSE [exists |-> TRUE, synced |-> IsTrue(o.Ready), ready |-> IsTrue(o.Ready),
          errorMessage |-> IF ~IsTrue(o.Ready) /\ HasMessage(o.Ready)
                           THEN o.Ready.message ELSE ""]

\* mutant: only the Ready condition's message is taken as the error.
GetExternalSecretStatus_ReadyMessageOnly(o) ==
    IF ~o.found
    THEN [exists |-> FALSE, synced |-> FALSE, ready |-> FALSE,
          errorMessage |-> NotFoundMessage]
    ELSE [exists |-> TRUE, synced |-> IsTrue(o.SecretSynced), ready |-> IsTrue(o.Ready),
          errorMessage |-> IF ~IsTrue(o.Ready) /\ HasMessage(o.Ready)
                           THEN o.Ready.message ELSE ""]

\* mutant: the SecretSynced condition is compared with the boolean true,
\* which a condition's string status never equals.
GetExternalSecretStatus_SyncedNeverTrue(o) ==
    IF ~o.found
    THEN [exists |-> FALSE, synced |-> FALSE, ready |-> FALSE,
          errorMessage |-> NotFoundMessage]
    ELSE [exists |-> TRUE, synced |-> FALSE, ready |-> IsTrue(o.Ready),
          errorMessage |->
              IF ~IsTrue(o.Ready) /\ HasMessage(o.Ready) THEN o.Ready.message
              ELSE IF HasMessage(o.SecretSynced) THEN o.SecretSynced.message
              ELSE ""]

\* getExternalSecretStatus(name, namespace): errorMessage "" stands for
\* undefined.
GetExternalSecretStatus(o) ==
    IF ~o.found
    THEN [exists |-> FALSE, synced |-> FALSE, ready |-> FALSE,
          errorMessage |-> NotFoundMessage]
    ELSE LET ready  == IsTrue(o.Ready)
             synced == IsTrue(o.SecretSynced)
         IN [exists |-> TRUE, synced |-> synced, ready |-> ready,
             errorMessage |->
                 IF ~ready /\ HasMessage(o.Ready) THEN o.Ready.message
                 ELSE IF ~synced /\ HasMessage(o.SecretSynced)
                      THEN o.SecretSynced.message
                 ELSE ""]

(***************************************************************************)
(* SpecWait: waitForExternalSecretSync(name, namespace, _, timeoutMs)      *)
(***************************************************************************)
PollIntervalMs == 2000
DefaultTimeoutMs == 60000
\* timeoutMs arguments tried: two short ones off the polling grid, and the
\* default.
Timeouts == {3000, 5000, DefaultTimeoutMs}
\* How long a kubectl call, and the lag of a timer beyond its interval, may
\* take: no time, or one more interval.
Delays == {0, PollIntervalMs}

NoResult == [synced |-> FALSE, ready |-> FALSE, error |-> "none"]
Converged == [synced |-> TRUE, ready |-> TRUE, error |-> ""]
Failure(msg) == [synced |-> FALSE, ready |-> FALSE, error |-> msg]

\* mutant: the loop also runs when the elapsed time equals the timeout.
LoopCondition_Inclusive(elapsed, timeoutMs) == elapsed <= timeoutMs

\* while (Date.now() - startTime < timeoutMs)
LoopCondition(elapsed, timeoutMs) == elapsed < timeoutMs

\* mutant: an object that does not exist is waited for like one that is
\* still syncing.
WaitVerdict_RetryNotFound(status) ==
    IF status.ready /\ status.synced THEN "converged"
    ELSE IF status.exists /\ status.errorMessage # "" THEN "failed"
    ELSE "pending"

\* mutant: an error message does not end the loop.
WaitVerdict_ConvergedOnly(status) ==
    IF status.ready /\ status.synced THEN "converged" ELSE "pending"

\* The two returns inside the loop; "pending" goes on to the sleep.
WaitVerdict(status) ==
    IF status.ready /\ status.synced THEN "converged"
    ELSE IF status.errorMessage # "" THEN "failed"
    ELSE "pending"

InitWait ==
    /\ GcpUnused
    /\ UpsertUnused
    /\ SyncUnused
    /\ ScanUnused
    /\ GenUnused
    /\ RaceUnused
    /\ wpc = "loop"
    /\ wtimeout \in Timeouts
    /\ welapsed = 0
    /\ wobserved = NotFound
    /\ wresult = NoResult
    /\ wpolls = 0
    /\ wsleeps = 0
    /\ wpollAt = 0

\* One iteration up to the sleep: the loop test passes, kubectl is run
\* (synchronously, execSync) and returns the object as it is then, and the
\* status decides between the two returns and the sleep.
Poll(o, d) ==
    /\ wpc = "loop"
    /\ LoopCondition(welapsed, wtimeout)
    /\ wpollAt' = welapsed
    /\ welapsed' = welapsed + d
    /\ wobserved' = o
    /\ wpolls' = Min(wpolls + 1, CountCap)
    /\ LET status  == GetExternalSecretStatus(o)
           verdict == WaitVerdict(status)
       IN /\ wpc' = IF verdict = "pending" THEN "sleep" ELSE "done"
          /\ wresult' = CASE verdict = "converged" -> Converged
                          [] verdict = "failed" -> Failure(status.errorMessage)
                          [] OTHER -> wresult
    /\ UNCHANGED <<wtimeout, wsleeps, nonWaitVars>>

\* await new Promise(resolve => setTimeout(resolve, pollInterval))
Sleep(d) ==
    /\ wpc = "sleep"
    /\ welapsed' = welapsed + PollIntervalMs + d
    /\ wsleeps' = Min(wsleeps + 1, CountCap)
    /\ wpc' = "loop"
    /\ UNCHANGED <<wtimeout, wobserved, wresult, wpolls, wpollAt, nonWaitVars>>

\* The loop test fails: the return after the loop.
TimedOut ==
    /\ wpc = "loop"
    /\ ~LoopCondition(welapsed, wtimeout)
    /\ wpc' = "done"
    /\ wresult' = Failure(TimeoutMessage)
    /\ UNCHANGED <<wtimeout, welapsed, wobserved, wpolls, wsleeps, wpollAt, nonWaitVars>>

NextWait ==
    \/ \E o \in ExternalSecrets : \E d \in Delays : Poll(o, d)
    \/ \E d \in Delays : Sleep(d)
    \/ TimedOut

SpecWait == InitWait /\ [][NextWait]_vars

\* Timers fire and kubectl returns: the call is never suspended for ever.
SpecWaitFair == SpecWait /\ WF_vars(NextWait)

(***************************************************************************)
(* Claims on waitForExternalSecretSync                                     *)
(***************************************************************************)
\* Read off the object itself, not off the status the code computes.
BothTrue(o) ==
    /\ o.found
    /\ o.Ready.present /\ o.Ready.status = "True"
    /\ o.SecretSynced.present /\ o.SecretSynced.status = "True"

\* The messages of the object's Ready / SecretSynced conditions that are
\* not true.
ErrorMessagesOf(o) ==
    {c.message : c \in {x \in {o.Ready, o.SecretSynced} :
                          x.present /\ x.status # "True" /\ x.message # ""}}

\* C7: the call polls before it returns, and when the object read by the
\* first poll has Ready and SecretSynced both true, the call has returned
\* {synced: true, ready: true} on that poll, without having slept.
C7_ConvergedOnFirstPoll ==
    /\ wpc = "done" => wpolls >= 1
    /\ (wpolls = 1 /\ BothTrue(wobserved)) =>
           /\ wpc = "done"
           /\ wresult = Converged
           /\ wsleeps = 0

C7_Witness ==
    /\ wpolls = 1 /\ BothTrue(wobserved) /\ wobserved.Ready.message = "m1"
    /\ wpc = "done" /\ wresult = Converged

\* C8: when a poll reads an object whose Ready or SecretSynced condition is
\* not true and carries a message, the call returns on that poll, not
\* synced and not ready, with such a message as its error; it neither
\* sleeps again nor reports the timeout.
C8_ErrorReturnsImmediately ==
    (wpolls >= 1 /\ wobserved.found /\ ErrorMessagesOf(wobserved) # {}) =>
        /\ wpc = "done"
        /\ ~wresult.synced /\ ~wresult.ready
        /\ wresult.error \in ErrorMessagesOf(wobserved)
        /\ wresult.error # TimeoutMessage
        /\ welapsed - wpollAt \in Delays

C8_Witness ==
    /\ wpc = "done" /\ wpolls = 2 /\ wsleeps = 1
    /\ wobserved.found /\ wobserved.Ready.present /\ wobserved.Ready.status = "True"
    /\ wresult.error = "m2"
    /\ welapsed < wtimeout

\* C9: the call always returns; when the last poll found neither both
\* conditions true nor an error message it returns the timed-out result,
\* and only once the timeout has elapsed; no poll starts at or after the
\* deadline.
C9_Terminates ==
    /\ <>(wpc = "done")
    /\ [](wpolls >= 1 => wpollAt < wtimeout)
    /\ []((wpc = "done" /\ wresult.error = TimeoutMessage) => welapsed >= wtimeout)
    /\ []((wpc = "done" /\ wobserved.found /\ ~BothTrue(wobserved)
                        /\ ErrorMessagesOf(wobserved) = {})
             => wresult = Failure(TimeoutMessage))

C9_Witness ==
    /\ wpc = "done" /\ wresult = Failure(TimeoutMessage)
    /\ wtimeout = DefaultTimeoutMs /\ welapsed >= wtimeout
    /\ wobserved.found /\ wpolls = CountCap

\* C11: the status of an object that does not exist is not existing, not
\* synced, not ready, with the "not found" message; and when the first
\* poll finds no object the call has returned that failure on that poll,
\* without sleeping or polling again.
C11_NotFoundReturnsAtOnce ==
    /\ GetExternalSecretStatus(NotFound) =
          [exists |-> FALSE, synced |-> FALSE, ready |-> FALSE,
           errorMessage |-> NotFoundMessage]
    /\ (wpolls >= 1 /\ ~wobserved.found) =>
          /\ wpc = "done"
          /\ wresult = Failure(NotFoundMessage)
          /\ welapsed - wpollAt \in Delays
    /\ (wpolls = 1 /\ ~wobserved.found) => wsleeps = 0

C11_Witness ==
    /\ wpolls = 1 /\ wsleeps = 0 /\ ~wobserved.found
    /\ wpc = "done" /\ wresult.error = NotFoundMessage
    /\ welapsed < wtimeout


(***************************************************************************)
(* Discovered secrets (scanner.ts: DiscoveredSecret) and the pure parts    *)
(* of scripts/secrets.ts                                                   *)
(***************************************************************************)
MaxSecrets == 2             \* descriptors in the values files
MaxFaults == 1              \* backend rejections injected in one run

NoGenerator == [present |-> FALSE, generate |-> FALSE, type |-> ""]
Generator(g, t) == [present |-> TRUE, generate |-> g, type |-> t]

Descriptor(d, c, k, g, ns) ==
    [deployment |-> d, chart |-> c, remoteKey |-> k, generator |-> g, namespace |-> ns]

\* The descriptors the values files may declare: an auto-generated secret,
\* one without a generator, one with generate: false that shares the first
\* one's remoteKey from another deployment and namespace, and one whose
\* generator type is the `base64` of docs/scripts/SECRETS.md.
Catalogue ==
    { Descriptor("acme-staging", "db", "k1", Generator(TRUE, "password"), ""),
      Descriptor("acme-staging", "api", "k2", NoGenerator, ""),
      Descriptor("acme-prod", "db", "k1", Generator(FALSE, "password"), "prod"),
      Descriptor("acme-prod", "cache", "k2", Generator(TRUE, "base64"), "") }

\* What scanValuesFiles can return: the descriptors in file order.
Scans ==
    {q \in UNION {[1..n -> Catalogue] : n \in 0..MaxSecrets} :
        \A i, j \in DOMAIN q : i # j => q[i] # q[j]}

\* A Map is kept as the sequence of its entries, in insertion order.
\* Map.prototype.has and Map.prototype.get
MapHas(m, k) == \E i \in DOMAIN m : m[i].key = k
MapGet(m, k) == m[CHOOSE i \in DOMAIN m : m[i].key = k].value

\* mutant: every set adds an entry.
MapSet_Append(m, k, v) == Append(m, [key |-> k, value |-> v])

\* Map.prototype.set: a new key goes last, a known key keeps its place and
\* takes the value.
MapSet(m, k, v) ==
    IF \E i \in DOMAIN m : m[i].key = k
    THEN [i \in DOMAIN m |-> IF m[i].key = k THEN [key |-> k, value |-> v] ELSE m[i]]
    ELSE Append(m, [key |-> k, value |-> v])

\* results.secrets.map((s) => s.remoteKey)
RemoteKeysOf(ss) == [i \in DOMAIN ss |-> ss[i].remoteKey]

\* mutant: a secret with a single version is not taken as existing.
StatusExists_HasHistory(st, k) ==
    MapHas(st, k) /\ MapGet(st, k).exists /\ MapGet(st, k).versionCount > 1

\* statuses.get(key)?.exists, falsy when the Map has no entry
StatusExists(st, k) == MapHas(st, k) /\ MapGet(st, k).exists

\* mutant: a key without an entry in the Map is not taken as missing.
IsMissing_OnlyIfReported(st, s) ==
    MapHas(st, s.remoteKey) /\ ~MapGet(st, s.remoteKey).exists

\* results.secrets.filter((s) => !statuses.get(s.remoteKey)?.exists)
IsMissing(st, s) == ~StatusExists(st, s.remoteKey)

\* s.generator?.generate
CanGenerate(s) == s.generator.present /\ s.generator.generate

PlanOf(ss, st) ==
    LET missing == SelectSeq(ss, LAMBDA s : IsMissing(st, s))
    IN [missing |-> missing,
        autoGenerate |-> SelectSeq(missing, CanGenerate),
        manualInput |-> SelectSeq(missing, LAMBDA s : ~CanGenerate(s))]

\* generateSecretValue: the four types of the switch; anything else throws.
SupportedTypes == {"password", "key", "token", "string"}
GenerateSecretValue(g) == [src |-> "generated", kind |-> g.type]
\* promptPassword's answer
ManualValue == [src |-> "manual", kind |-> "typed"]

RECURSIVE SetGenerated(_, _)
\* for (const secret of autoGenerate)
\*   secretValues.set(secret.remoteKey, generateSecretValue(secret.generator))
SetGenerated(m, list) ==
    IF list = <<>> THEN m
    ELSE SetGenerated(MapSet(m, Head(list).remoteKey,
                             GenerateSecretValue(Head(list).generator)),
                      Tail(list))

(***************************************************************************)
(* checkSecrets: batches of CONCURRENCY concurrent getSecretStatus calls   *)
(***************************************************************************)
CONCURRENCY == 10

\* mutant: every remaining key is queried at once.
IssueBatch_All(keys, i, st) ==
    [j \in 1..(Len(keys) - i + 1) |->
        [idx |-> i + j - 1, key |-> keys[i + j - 1], issuedIn |-> st,
         phase |-> "get", status |-> NoStatus]]

\* remoteKeys.slice(i, i + CONCURRENCY).map((key) => this.getSecretStatus(key)):
\* every call of the batch has sent its getSecret.
IssueBatch(keys, i, st) ==
    [j \in 1..(Min(i + CONCURRENCY - 1, Len(keys)) - i + 1) |->
        [idx |-> i + j - 1, key |-> keys[i + j - 1], issuedIn |-> st,
         phase |-> "get", status |-> NoStatus]]

\* The calls whose promise has not settled.
Pending(b) == SelectSeq(b, LAMBDA q : q.phase \in {"get", "list"})

\* mutant: the batch is taken as finished when its first promise settles.
BatchSettled_First(b) == b # <<>> /\ b[1].phase = "done"

\* Promise.all resolves: every promise of the batch has resolved.
BatchSettled(b) == \A j \in DOMAIN b : b[j].phase = "done"

\* Promise.all rejects as soon as one promise has rejected.
BatchRejected(b) == \E j \in DOMAIN b : b[j].phase = "rejected"

RECURSIVE SetStatuses(_, _)
\* for (const status of statuses) results.set(status.remoteKey, status)
SetStatuses(st, b) ==
    IF b = <<>> THEN st
    ELSE SetStatuses(MapSet(st, Head(b).status.remoteKey, Head(b).status), Tail(b))

NoneCreated == [prompted |-> 0, at |-> 1, count |-> 0, failed |-> <<>>]

\* What a run has done so far: the stages begun, the backend calls made
\* (initialize, status queries, createSecret / addSecretVersion), the
\* kubectl reads, the rejections received, and the number of backend
\* calls made when the first PERMISSION_DENIED came back (-1: none yet);
\* `prior` holds how the earlier runs of the command ended.
NoHist == [stages |-> <<>>, inits |-> 0, queries |-> 0, mutations |-> 0,
           reads |-> 0, faults |-> 0, deniedAt |-> -1, prior |-> <<>>]

BackendCalls(h) == h.inits + h.queries + h.mutations

\* The history after a call that came back with `outcome`.
Answered(h, outcome) ==
    IF outcome = "ok" THEN h
    ELSE [h EXCEPT !.faults = @ + 1,
                   !.deniedAt = IF outcome = "PERMISSION_DENIED" /\ @ = -1
                                THEN BackendCalls(h) ELSE @]

(***************************************************************************)
(* SpecSync: syncCommand                                                   *)
(***************************************************************************)
InitSync ==
    /\ InitGcp
    /\ UpsertUnused
    /\ WaitUnused
    /\ ScanUnused
    /\ GenUnused
    /\ RaceUnused
    /\ opts \in [command : {"sync"}, dryRun : BOOLEAN, yes : BOOLEAN,
                configured : BOOLEAN, scan : Scans]
    /\ pc = "discover"
    /\ stage = "discover"
    /\ exitCode = -1
    /\ secrets = <<>>
    /\ inflight = <<>>
    /\ statuses = <<>>
    /\ report = [exists |-> 0, missing |-> 0]
    /\ plan = [missing |-> <<>>, autoGenerate |-> <<>>, manualInput |-> <<>>]
    /\ confirm = "unasked"
    /\ secretValues = <<>>
    /\ created = NoneCreated
    /\ vreads = <<>>
    /\ validation = [success |-> FALSE, total |-> 0, synced |-> 0, ready |-> 0, errors |-> 0]
    /\ cluster = <<>>
    /\ hist = [NoHist EXCEPT !.stages = <<"discover">>]

\* process.exit(code)
Exit(code) ==
    /\ pc' = "exited"
    /\ exitCode' = code

\* mutant: validate runs after generate whatever --dry-run says.
NextStage_AlwaysValidate(st, dryRun) ==
    CASE st = "discover" -> "check"
      [] st = "check" -> "generate"
      [] st = "generate" -> "validate"
      [] OTHER -> "end"

\* The command syncCommand awaits after `st`; after generate, validate
\* runs unless --dry-run.
NextStage(st, dryRun) ==
    CASE st = "discover" -> "check"
      [] st = "check" -> "generate"
      [] st = "generate" -> IF dryRun THEN "end" ELSE "validate"
      [] OTHER -> "end"

\* What follows the command `st`: the next command of syncCommand, or the
\* end of main when the command was given on the command line.
AfterCommand(st) ==
    IF opts.command = "sync" THEN NextStage(st, opts.dryRun) ELSE "end"

\* A command returns to its caller, which goes on.
Return ==
    LET nxt == AfterCommand(stage) IN
    /\ pc' = nxt
    /\ stage' = nxt
    /\ hist' = [hist EXCEPT !.stages = Append(@, nxt)]

\* discoverCommand: the scan and the listing.
DiscoverCommand ==
    /\ pc = "discover"
    /\ secrets' = opts.scan
    /\ Return
    /\ UNCHANGED <<opts, exitCode, inflight, statuses, report, plan, confirm, secretValues,
                   created, vreads, validation, cluster, gcpVars, upsertVars, waitVars, scanVars, genVars, race>>

\* checkCommand and generateCommand, from their first line to the first
\* backend call: the ClusterSecretStore must be configured, the values
\* files are scanned, and unless --dry-run the provider is initialised.
CommandBegin ==
    /\ pc \in {"check", "generate"}
    /\ IF ~opts.configured
       THEN /\ Exit(1)
            /\ UNCHANGED <<secrets, statuses, stage, hist>>
       ELSE /\ secrets' = opts.scan
            /\ statuses' = <<>>
            /\ UNCHANGED exitCode
            /\ IF Len(opts.scan) = 0 THEN Return
               ELSE /\ pc' = IF opts.dryRun
                             THEN (IF stage = "check" THEN "report" ELSE "plan")
                             ELSE "init"
                    /\ UNCHANGED <<stage, hist>>
    /\ UNCHANGED <<opts, inflight, report, plan, confirm, secretValues,
                   created, vreads, validation, cluster, gcpVars, upsertVars, waitVars, scanVars, genVars, race>>

\* await provider.initialize(): listSecrets with pageSize 1.  A rejection
\* ends the process; otherwise checkSecrets starts its first batch.
ProviderInit(outcome) ==
    /\ pc = "init"
    /\ outcome # "ok" => hist.faults < MaxFaults
    /\ IF outcome = "ok"
       THEN /\ pc' = "batch"
            /\ inflight' = IssueBatch(RemoteKeysOf(secrets), 1, stage)
            /\ hist' = [hist EXCEPT !.inits = @ + 1,
                                    !.queries = @ + Len(inflight')]
            /\ UNCHANGED exitCode
       ELSE /\ Exit(1)
            /\ hist' = Answered([hist EXCEPT !.inits = @ + 1], outcome)
            /\ UNCHANGED inflight
    /\ UNCHANGED <<opts, stage, secrets, statuses, report, plan, confirm, secretValues,
                   created, vreads, validation, cluster, gcpVars, upsertVars, waitVars, scanVars, genVars, race>>

\* getSecretStatus of one call of the batch, first await: getSecret.
\* NOT_FOUND resolves the promise with {exists: false}; any other rejection
\* rejects it.
QueryGet(j, outcome) ==
    /\ pc = "batch"
    /\ j \in DOMAIN inflight
    /\ inflight[j].phase = "get"
    /\ outcome # "ok" => hist.faults < MaxFaults
    /\ LET k == inflight[j].key IN
       inflight' = [inflight EXCEPT ![j] =
           IF outcome # "ok" THEN [@ EXCEPT !.phase = "rejected"]
           ELSE IF ClientGetSecret(gcp, k) = "ok" THEN [@ EXCEPT !.phase = "list"]
           ELSE [@ EXCEPT !.phase = "done", !.status = SecretStatusMissing(k)]]
    /\ hist' = Answered(hist, outcome)
    /\ UNCHANGED <<opts, pc, stage, exitCode, secrets, statuses, report, plan, confirm,
                   secretValues, created, vreads, validation, cluster,
                   gcpVars, upsertVars, waitVars, scanVars, genVars, race>>

\* getSecretStatus, second await: listSecretVersions, then the status.
QueryList(j) ==
    /\ pc = "batch"
    /\ j \in DOMAIN inflight
    /\ inflight[j].phase = "list"
    /\ inflight' = [inflight EXCEPT ![j] =
                       [@ EXCEPT !.phase = "done",
                                 !.status = SecretStatusOf(gcp, inflight[j].key)]]
    /\ UNCHANGED <<opts, pc, stage, exitCode, secrets, statuses, report, plan, confirm,
                   secretValues, created, vreads, validation, cluster, hist,
                   gcpVars, upsertVars, waitVars, scanVars, genVars, race>>

\* Promise.all of the batch resolves: its statuses go into the Map, and the
\* loop issues the next batch or checkSecrets returns to its command.
BatchEnd ==
    /\ pc = "batch"
    /\ inflight # <<>>
    /\ ~BatchRejected(inflight)
    /\ BatchSettled(inflight)
    /\ LET keys == RemoteKeysOf(secrets)
           i    == inflight[Len(inflight)].idx + 1
       IN /\ statuses' = SetStatuses(statuses, SelectSeq(inflight, LAMBDA q : q.phase = "done"))
          /\ IF i <= Len(keys)
             THEN /\ inflight' = Pending(inflight) \o IssueBatch(keys, i, stage)
                  /\ hist' = [hist EXCEPT !.queries = @ + Len(IssueBatch(keys, i, stage))]
                  /\ UNCHANGED pc
             ELSE /\ inflight' = Pending(inflight)
                  /\ pc' = IF stage = "check" THEN "report" ELSE "plan"
                  /\ UNCHANGED hist
    /\ UNCHANGED <<opts, stage, exitCode, secrets, report, plan, confirm,
                   secretValues, created, vreads, validation, cluster,
                   gcpVars, upsertVars, waitVars, scanVars, genVars, race>>

\* Promise.all of the batch rejects: the error leaves checkSecrets and the
\* command, and main's catch ends the process.
BatchFail ==
    /\ pc = "batch"
    /\ BatchRejected(inflight)
    /\ Exit(1)
    /\ UNCHANGED <<opts, stage, secrets, inflight, statuses, report, plan, confirm,
                   secretValues, created, vreads, validation, cluster, hist,
                   gcpVars, upsertVars, waitVars, scanVars, genVars, race>>

\* checkCommand after the statuses: the totals it prints.
CheckReport ==
    /\ pc = "report"
    /\ LET ex == SelectSeq(secrets, LAMBDA s : StatusExists(statuses, s.remoteKey))
       IN report' = [exists |-> Len(ex), missing |-> Len(secrets) - Len(ex)]
    /\ Return
    /\ UNCHANGED <<opts, exitCode, secrets, inflight, statuses, plan, confirm,
                   secretValues, created, vreads, validation, cluster,
                   gcpVars, upsertVars, waitVars, scanVars, genVars, race>>

\* generateCommand after the statuses: the missing secrets and their split
\* into auto-generated and manual ones; nothing missing and --dry-run both
\* return here, and without --yes the confirmation is asked.
GenPlan ==
    /\ pc = "plan"
    /\ plan' = PlanOf(secrets, statuses)
    /\ IF Len(plan'.missing) = 0 \/ opts.dryRun
       THEN Return
       ELSE /\ pc' = IF opts.yes THEN "values" ELSE "confirm"
            /\ UNCHANGED <<stage, hist>>
    /\ UNCHANGED <<opts, exitCode, secrets, inflight, statuses, report, confirm,
                   secretValues, created, vreads, validation, cluster,
                   gcpVars, upsertVars, waitVars, scanVars, genVars, race>>

\* await promptConfirm(...): a refusal returns from the command.
GenConfirm(confirmed) ==
    /\ pc = "confirm"
    /\ confirm' = IF confirmed THEN "confirmed" ELSE "declined"
    /\ IF confirmed
       THEN /\ pc' = "values"
            /\ UNCHANGED <<stage, hist>>
       ELSE Return
    /\ UNCHANGED <<opts, exitCode, secrets, inflight, statuses, report, plan,
                   secretValues, created, vreads, validation, cluster,
                   gcpVars, upsertVars, waitVars, scanVars, genVars, race>>

\* The auto-generate loop: generateSecretValue throws on a type it does
\* not know, which ends the process through main's catch.
GenAuto ==
    /\ pc = "values"
    /\ IF \E i \in DOMAIN plan.autoGenerate :
              plan.autoGenerate[i].generator.type \notin SupportedTypes
       THEN /\ Exit(1)
            /\ UNCHANGED secretValues
       ELSE /\ secretValues' = SetGenerated(<<>>, plan.autoGenerate)
            /\ pc' = IF Len(plan.manualInput) > 0 THEN "prompt" ELSE "create"
            /\ UNCHANGED exitCode
    /\ UNCHANGED <<opts, stage, secrets, inflight, statuses, report, plan, confirm,
                   created, vreads, validation, cluster, hist,
                   gcpVars, upsertVars, waitVars, scanVars, genVars, race>>

\* await promptPassword(...) for the next manual secret.
GenPrompt ==
    /\ pc = "prompt"
    /\ LET s == plan.manualInput[created.prompted + 1] IN
       secretValues' = MapSet(secretValues, s.remoteKey, ManualValue)
    /\ created' = [created EXCEPT !.prompted = @ + 1]
    /\ pc' = IF created'.prompted < Len(plan.manualInput) THEN "prompt" ELSE "create"
    /\ UNCHANGED <<opts, stage, exitCode, secrets, inflight, statuses, report, plan,
                   confirm, vreads, validation, cluster, hist,
                   gcpVars, upsertVars, waitVars, scanVars, genVars, race>>

\* The create loop goes on to entry `at` of secretValues, or the command
\* returns after the last one; h is the history so far.
AfterEntry(at, h) ==
    IF at <= Len(secretValues)
    THEN /\ pc' = "create"
         /\ hist' = h
         /\ UNCHANGED stage
    ELSE LET nxt == AfterCommand(stage) IN
         /\ pc' = nxt
         /\ stage' = nxt
         /\ hist' = [h EXCEPT !.stages = Append(@, nxt)]

\* The history after a mutating call that came back with `outcome`.
Called(h, outcome) == Answered([h EXCEPT !.mutations = @ + 1], outcome)

\* provider.createSecret(remoteKey, value), first await: client.createSecret.
\* A rejection is caught and logged by the loop, which goes on.
GenCreate(outcome) ==
    /\ pc = "create"
    /\ outcome # "ok" => hist.faults < MaxFaults
    /\ LET k == secretValues[created.at].key
           r == IF outcome = "ok" THEN ClientCreateSecret(gcp, k)
                ELSE [err |-> outcome, store |-> gcp]
       IN /\ gcp' = r.store
          /\ IF r.err = "none"
             THEN /\ pc' = "addVersion"
                  /\ hist' = Called(hist, outcome)
                  /\ UNCHANGED <<created, stage>>
             ELSE /\ created' = [created EXCEPT !.at = @ + 1,
                                                !.failed = Append(@, k)]
                  /\ AfterEntry(created'.at, Called(hist, outcome))
    /\ UNCHANGED <<opts, exitCode, secrets, inflight, statuses, report, plan,
                   confirm, secretValues, vreads, validation, cluster,
                   gcp0, upsertVars, waitVars, scanVars, genVars, race>>

\* provider.createSecret, second await: client.addSecretVersion with the
\* value; `created++` follows when it resolves.
GenAddVersion(outcome) ==
    /\ pc = "addVersion"
    /\ outcome # "ok" => hist.faults < MaxFaults
    /\ LET e == secretValues[created.at]
           r == IF outcome = "ok" THEN ClientAddSecretVersion(gcp, e.key, e.value)
                ELSE [err |-> outcome, store |-> gcp]
       IN /\ gcp' = r.store
          /\ created' = IF r.err = "none"
                        THEN [created EXCEPT !.at = @ + 1, !.count = @ + 1]
                        ELSE [created EXCEPT !.at = @ + 1,
                                             !.failed = Append(@, e.key)]
          /\ AfterEntry(created'.at, Called(hist, outcome))
    /\ UNCHANGED <<opts, exitCode, secrets, inflight, statuses, report, plan,
                   confirm, secretValues, vreads, validation, cluster,
                   gcp0, upsertVars, waitVars, scanVars, genVars, race>>

(***************************************************************************)
(* validateCommand / validateExternalSecrets                               *)
(***************************************************************************)
\* `${secret.deployment}:${secret.namespace || "default"}`
GroupKey(s) ==
    [deployment |-> s.deployment,
     namespace |-> IF s.namespace = "" THEN "default" ELSE s.namespace]

RECURSIVE GroupKeys(_)
\* The keys of `grouped` in insertion order.
GroupKeys(ss) ==
    IF ss = <<>> THEN <<>>
    ELSE LET front == GroupKeys(SubSeq(ss, 1, Len(ss) - 1))
             k == GroupKey(ss[Len(ss)])
         IN IF \E i \in DOMAIN front : front[i] = k THEN front ELSE Append(front, k)

RECURSIVE Flatten(_, _)
\* The secrets in the order validateExternalSecrets reads them: group by
\* group, each group in file order.
Flatten(ks, ss) ==
    IF ks = <<>> THEN <<>>
    ELSE SelectSeq(ss, LAMBDA s : GroupKey(s) = Head(ks)) \o Flatten(Tail(ks), ss)

ReadOrder(ss) == Flatten(GroupKeys(ss), ss)

\* The ExternalSecret read for a descriptor: `${secret.chart}-credentials`
\* in the group's namespace.
ObjectOf(s) == [name |-> s.chart, namespace |-> GroupKey(s).namespace]

\* Objects the cluster may hold when one is first read: none, one still
\* syncing, one with a failed condition, one Ready but not SecretSynced,
\* one SecretSynced without a Ready condition, one converged.
Syncing == [found |-> TRUE,
            Ready |-> [present |-> TRUE, status |-> "False", message |-> ""],
            SecretSynced |-> Absent]
Failing == [found |-> TRUE,
            Ready |-> [present |-> TRUE, status |-> "False", message |-> "m1"],
            SecretSynced |-> Absent]
Synced == [found |-> TRUE,
           Ready |-> [present |-> TRUE, status |-> "True", message |-> ""],
           SecretSynced |-> [present |-> TRUE, status |-> "True", message |-> ""]]
ReadyOnly == [found |-> TRUE,
              Ready |-> [present |-> TRUE, status |-> "True", message |-> ""],
              SecretSynced |-> [present |-> TRUE, status |-> "False", message |-> ""]]
SyncedOnly == [found |-> TRUE,
               Ready |-> Absent,
               SecretSynced |-> [present |-> TRUE, status |-> "True", message |-> ""]]
ClusterObjects == {NotFound, Syncing, Failing, ReadyOnly, SyncedOnly, Synced}

\* The externalSecrets of the deployment results, after
\* deploymentResults.set(deployment, ...) for every group: a later group
\* of the same deployment replaces the earlier one.
KeptReads(reads) ==
    LET Replaced(i) == \E j \in DOMAIN reads :
                          /\ j > i
                          /\ reads[j].group.deployment = reads[i].group.deployment
                          /\ reads[j].group # reads[i].group
        Kept[i \in 0..Len(reads)] ==
            IF i = 0 THEN <<>>
            ELSE IF Replaced(i) THEN Kept[i - 1] ELSE Append(Kept[i - 1], reads[i])
    IN Kept[Len(reads)]

\* errorCount of a group is the number of its statuses that are not ready.
ValidationOf(reads) ==
    LET kept   == KeptReads(reads)
        total  == Len(kept)
        synced == Len(SelectSeq(kept, LAMBDA e : e.status.synced))
        ready  == Len(SelectSeq(kept, LAMBDA e : e.status.ready))
        errors == Len(SelectSeq(kept, LAMBDA e : ~e.status.ready))
    IN [success |-> errors = 0 /\ synced = total,
        total |-> total, synced |-> synced, ready |-> ready, errors |-> errors]

\* mutant: the loops stop at the first status that is not ready.
ReadsDone_StopOnFailure(reads, ss) ==
    Len(reads) = Len(ss) \/ ~reads[Len(reads)].status.ready

\* The loops over the groups and their secrets have no break and
\* getExternalSecretStatus never throws: they end after the last secret.
ReadsDone(reads, ss) == Len(reads) = Len(ss)

\* mutant: validateCommand looks at the error count only.
SyncSucceeds_NoErrors(v) == v.errors = 0

\* if (validation.success) ... else process.exit(1)
SyncSucceeds(v) == v.success

\* validateCommand up to the first kubectl read.
ValBegin ==
    /\ pc = "validate"
    /\ secrets' = opts.scan
    /\ vreads' = <<>>
    /\ IF Len(opts.scan) = 0 THEN Return
       ELSE /\ pc' = "reading"
            /\ UNCHANGED <<stage, hist>>
    /\ UNCHANGED <<opts, exitCode, inflight, statuses, report, plan, confirm,
                   secretValues, created, validation, cluster,
                   gcpVars, upsertVars, waitVars, scanVars, genVars, race>>

\* getExternalSecretStatus for the next secret: one kubectl get of the
\* object o the cluster holds under that name; after the last one the
\* result is computed and the command returns or exits with 1.
ValRead(o) ==
    /\ pc = "reading"
    /\ LET s  == ReadOrder(secrets)[Len(vreads) + 1]
           id == ObjectOf(s)
       IN /\ IF id \in DOMAIN cluster
             THEN o = cluster[id] /\ UNCHANGED cluster
             ELSE cluster' = (id :> o) @@ cluster
          /\ vreads' = Append(vreads, [object |-> id, group |-> GroupKey(s),
                                       status |-> GetExternalSecretStatus(o)])
    /\ IF ~ReadsDone(vreads', secrets)
       THEN /\ hist' = [hist EXCEPT !.reads = @ + 1]
            /\ UNCHANGED <<pc, stage, exitCode, validation>>
       ELSE /\ validation' = ValidationOf(vreads')
            /\ IF SyncSucceeds(validation')
               THEN /\ pc' = "end"
                    /\ stage' = "end"
                    /\ hist' = [hist EXCEPT !.reads = @ + 1,
                                            !.stages = Append(@, "end")]
                    /\ UNCHANGED exitCode
               ELSE /\ Exit(1)
                    /\ hist' = [hist EXCEPT !.reads = @ + 1]
                    /\ UNCHANGED stage
    /\ UNCHANGED <<opts, secrets, inflight, statuses, report, plan, confirm,
                   secretValues, created, gcpVars, upsertVars, waitVars, scanVars, genVars, race>>

\* The External Secrets operator, outside the program, brings an object
\* of the cluster to Ready and SecretSynced while validate is running.
Reconcile(id) ==
    /\ pc = "reading"
    /\ id \in DOMAIN cluster
    /\ cluster[id] = Syncing
    /\ cluster' = [cluster EXCEPT ![id] = Synced]
    /\ UNCHANGED <<opts, pc, stage, exitCode, secrets, inflight, statuses, report, plan,
                   confirm, secretValues, created, vreads, validation, hist,
                   gcpVars, upsertVars, waitVars, scanVars, genVars, race>>

\* The command returns to main; the process ends with code 0.
SyncEnd ==
    /\ pc = "end"
    /\ Exit(0)
    /\ UNCHANGED <<opts, stage, secrets, inflight, statuses, report, plan, confirm,
                   secretValues, created, vreads, validation, cluster, hist,
                   gcpVars, upsertVars, waitVars, scanVars, genVars, race>>

Faults == {"PERMISSION_DENIED", "UNAVAILABLE"}
Outcomes == {"ok"} \cup Faults
Objects == {ObjectOf(s) : s \in Catalogue}

NextSync ==
    \/ DiscoverCommand
    \/ CommandBegin
    \/ \E outcome \in Outcomes : ProviderInit(outcome)
    \/ \E j \in 1..MaxSecrets, outcome \in Outcomes : QueryGet(j, outcome)
    \/ \E j \in 1..MaxSecrets : QueryList(j)
    \/ BatchEnd
    \/ BatchFail
    \/ CheckReport
    \/ GenPlan
    \/ \E confirmed \in BOOLEAN : GenConfirm(confirmed)
    \/ GenAuto
    \/ GenPrompt
    \/ \E outcome \in Outcomes : GenCreate(outcome)
    \/ \E outcome \in Outcomes : GenAddVersion(outcome)
    \/ ValBegin
    \/ \E o \in ClusterObjects : ValRead(o)
    \/ \E id \in Objects : Reconcile(id)
    \/ SyncEnd

SpecSync == InitSync /\ [][NextSync]_vars

(***************************************************************************)
(* Properties of the sync pipeline                                         *)
(***************************************************************************)
IsPrefix(p, q) == Len(p) <= Len(q) /\ \A i \in DOMAIN p : p[i] = q[i]

StagesBegun == {hist.stages[i] : i \in DOMAIN hist.stages}

\* The descriptors of a list whose remoteKey the backend does not hold.
BackendMissing(ss, store) == SelectSeq(ss, LAMBDA s : ~store[s.remoteKey].exists)

\* C3: in dry-run mode no mutating provider call is made and the backend is
\* left as it was; the validate stage is never begun and no delivery
\* object is read.
C3_DryRunMutatesNothing ==
    opts.dryRun =>
        /\ hist.mutations = 0
        /\ gcp = gcp0
        /\ pc \notin {"create", "addVersion", "validate", "reading"}
        /\ "validate" \notin StagesBegun
        /\ hist.reads = 0
        /\ vreads = <<>>
        /\ cluster = <<>>

\* A dry run that planned secrets to create and ended normally.
C3_Witness ==
    /\ opts.dryRun
    /\ Len(plan.missing) > 0
    /\ pc = "exited"
    /\ exitCode = 0

\* A dry run whose generate command has reported its plan.
DryRunPlanned ==
    /\ opts.dryRun
    /\ opts.configured
    /\ Len(opts.scan) > 0
    /\ stage = "end"

\* C4 as stated: a dry run has queried the backend for the statuses, and
\* the secrets it reports as to be created are exactly the discovered
\* descriptors whose remoteKey the backend does not hold.
C4_DryRunPlanIsBackendMissing ==
    DryRunPlanned =>
        /\ hist.queries > 0
        /\ plan.missing = BackendMissing(secrets, gcp)

\* C4 amended: a dry run makes no backend call at all; check reports every
\* discovered descriptor as missing and generate reports every discovered
\* descriptor as to be created, whatever the backend holds.
C4_DryRunPlansAllDiscovered ==
    /\ opts.dryRun => hist.inits = 0 /\ hist.queries = 0 /\ statuses = <<>>
    /\ DryRunPlanned =>
        /\ report = [exists |-> 0, missing |-> Len(secrets)]
        /\ plan.missing = secrets

\* A dry run that reported a secret as to be created although the backend
\* holds it.
C4_Witness ==
    /\ DryRunPlanned
    /\ \E i \in DOMAIN plan.missing : gcp[plan.missing[i].remoteKey].exists

\* The stages of sync in order, without validate in a dry run.
StageOrder(dryRun) ==
    IF dryRun THEN <<"discover", "check", "generate", "end">>
    ELSE <<"discover", "check", "generate", "validate", "end">>

\* C5: the stages are begun in the order discover, check, generate,
\* validate, and never overlap: a status query that has not completed was
\* issued by the stage that is running, secrets are created only in
\* generate and delivery objects read only in validate, and neither
\* happens while a status query is outstanding.
C5_StagesDoNotOverlap ==
    /\ IsPrefix(hist.stages, StageOrder(opts.dryRun))
    /\ hist.stages[Len(hist.stages)] = stage
    /\ \A j \in DOMAIN inflight :
          inflight[j].phase \in {"get", "list"} => inflight[j].issuedIn = stage
    /\ pc \in {"create", "addVersion"} => stage = "generate" /\ Pending(inflight) = <<>>
    /\ pc = "reading" => stage = "validate" /\ Pending(inflight) = <<>>
    /\ hist.mutations > 0 => "generate" \in StagesBegun
    /\ hist.reads > 0 => "validate" \in StagesBegun

\* A run in which check and generate each queried two keys, generate wrote
\* to the backend and validate has read a delivery object.
C5_Witness ==
    /\ stage = "validate"
    /\ Len(secrets) = 2
    /\ hist.queries = 4
    /\ hist.mutations > 0
    /\ hist.reads > 0

\* The generate stage is over: sync went on, or the process ended in it.
GenerateOver ==
    \/ "generate" \in StagesBegun /\ stage \in {"validate", "end"}
    \/ stage = "generate" /\ pc = "exited"

\* The value the backend holds for a key: its newest version.
WrittenValue(store, k) == store[k].versions[Len(store[k].versions)]

\* C6: when the generate stage is over in a run that is not a dry run,
\* was not refused at the confirmation and met no backend rejection, every
\* discovered descriptor whose remoteKey was missing from the backend has
\* a value written under that key: the generated one when its generator is
\* enabled, the one typed at the prompt otherwise.
C6_EveryMissingSecretWritten ==
    ( /\ GenerateOver
      /\ ~opts.dryRun
      /\ confirm # "declined"
      /\ hist.faults = 0 )
    => \A i \in DOMAIN secrets :
          LET s == secrets[i] IN
          ~gcp0[s.remoteKey].exists =>
              /\ gcp[s.remoteKey].exists
              /\ gcp[s.remoteKey].versions # <<>>
              /\ WrittenValue(gcp, s.remoteKey) =
                    IF CanGenerate(s) THEN GenerateSecretValue(s.generator)
                    ELSE ManualValue

\* C10: when validate has finished, a delivery object that was read while
\* still syncing (found, not Ready and SecretSynced, no failure message)
\* has been read again, is reported ready if the cluster now holds it as
\* Ready and SecretSynced, and is otherwise reported with the timeout
\* message.
C10_ValidatePollsUntilReady ==
    ( /\ "validate" \in StagesBegun
      /\ pc \in {"end", "exited"}
      /\ Len(vreads) = Len(secrets) )
    => \A i \in DOMAIN vreads :
          LET e == vreads[i] IN
          (e.status.exists /\ ~(e.status.ready /\ e.status.synced)
                           /\ e.status.errorMessage = "")
          => /\ \E j \in DOMAIN vreads : j > i /\ vreads[j].object = e.object
             /\ BothTrue(cluster[e.object]) => validation.success

\* validateExternalSecrets has returned its result.
Validated ==
    /\ "validate" \in StagesBegun
    /\ pc \in {"end", "exited"}
    /\ Len(vreads) > 0
    /\ Len(vreads) = Len(secrets)

\* The number of reads whose status satisfies Test.
CountReads(Test(_)) == Cardinality({i \in DOMAIN vreads : Test(vreads[i].status)})

\* C12: the result's success is true exactly when, over all the delivery
\* objects that were checked, none is not ready (errors = 0) and all are
\* synced (synced = total); total, synced and errors of the result are
\* those overall counts.
C12_SuccessIsNoErrorsAllSynced ==
    Validated =>
        /\ validation.total = Len(vreads)
        /\ validation.synced = CountReads(LAMBDA st : st.synced)
        /\ validation.errors = CountReads(LAMBDA st : ~st.ready)
        /\ validation.success <=>
              /\ CountReads(LAMBDA st : ~st.ready) = 0
              /\ CountReads(LAMBDA st : st.synced) = Len(vreads)

\* C13: a sync that ran the validate stage ends with code 0 exactly when
\* the aggregate result's success is true, and with code 1 otherwise; and
\* no sync that is not a dry run ends with code 0 unless every discovered
\* secret was validated with an aggregate success (of no object at all
\* when nothing was discovered).
C13_SyncSucceedsIffValidationDoes ==
    /\ (Validated /\ pc = "exited") =>
          /\ exitCode \in {0, 1}
          /\ exitCode = 0 <=> validation.success
    /\ (pc = "exited" /\ exitCode = 0 /\ ~opts.dryRun) =>
          /\ Len(vreads) = Len(secrets)
          /\ ValidationOf(vreads).success

\* A sync that ended with code 1 on a validation without errors, one
\* object being ready but not synced.
C13_Witness ==
    /\ Validated /\ pc = "exited"
    /\ exitCode = 1
    /\ validation.errors = 0
    /\ validation.synced < validation.total

(***************************************************************************)
(* SpecCheck: `secrets.ts check` over values files with many secrets       *)
(***************************************************************************)
MaxKeys == 12               \* secrets in the values files of SpecCheck

\* n secrets of one deployment, one chart each, without generator; their
\* remoteKeys alternate between the two keys.
ManySecrets(n) ==
    [i \in 1..n |->
        Descriptor("acme-staging", ToString(i),
                   IF i % 2 = 1 THEN "k1" ELSE "k2", NoGenerator, "")]

InitCheck ==
    /\ InitGcp
    /\ UpsertUnused
    /\ WaitUnused
    /\ ScanUnused
    /\ GenUnused
    /\ RaceUnused
    /\ opts \in [command : {"check"}, dryRun : {FALSE}, yes : {FALSE},
                configured : {TRUE},
                scan : {ManySecrets(n) : n \in {1, CONCURRENCY, MaxKeys}}]
    /\ pc = "check"
    /\ stage = "check"
    /\ exitCode = -1
    /\ secrets = <<>>
    /\ inflight = <<>>
    /\ statuses = <<>>
    /\ report = [exists |-> 0, missing |-> 0]
    /\ plan = [missing |-> <<>>, autoGenerate |-> <<>>, manualInput |-> <<>>]
    /\ confirm = "unasked"
    /\ secretValues = <<>>
    /\ created = NoneCreated
    /\ vreads = <<>>
    /\ validation = [success |-> FALSE, total |-> 0, synced |-> 0, ready |-> 0, errors |-> 0]
    /\ cluster = <<>>
    /\ hist = [NoHist EXCEPT !.stages = <<"check">>]

\* The backend answers every status query here; its rejections are in
\* SpecSync.
NextCheck ==
    \/ CommandBegin
    \/ \E outcome \in Outcomes : ProviderInit(outcome)
    \/ \E j \in 1..MaxKeys : QueryGet(j, "ok")
    \/ \E j \in 1..MaxKeys : QueryList(j)
    \/ BatchEnd
    \/ CheckReport
    \/ SyncEnd

SpecCheck == InitCheck /\ [][NextCheck]_vars

\* The status queries sent to the backend and not yet answered.
InFlight == Len(Pending(inflight))

\* C14: at every moment of checkSecrets at most CONCURRENCY status
\* queries are in flight, however many remoteKeys there are.
C14_InFlightAtMostCap == InFlight <= CONCURRENCY

\* The second batch of a check of more keys than the cap is in flight,
\* after a first batch that had CONCURRENCY queries in flight at once.
C14_Witness ==
    /\ Len(secrets) > CONCURRENCY
    /\ hist.queries = Len(secrets)
    /\ InFlight = Len(secrets) - CONCURRENCY
    /\ Len(statuses) = Cardinality(Keys)

\* checkSecrets has returned the statuses to checkCommand or
\* generateCommand.
StatusesReturned == pc \in {"report", "plan"} /\ ~opts.dryRun

\* The entries of the statuses Map under key k.
EntriesOf(k) == {i \in DOMAIN statuses : statuses[i].key = k}

\* C15: the Map checkSecrets returns has exactly one entry for every
\* distinct remoteKey of the discovered secrets, also when two
\* descriptors share the key, and none for any other key; the entry is
\* the status of that key in the backend.
C15_OneStatusPerRemoteKey ==
    StatusesReturned =>
        \A k \in Keys :
            /\ Cardinality(EntriesOf(k)) =
                  IF \E i \in DOMAIN secrets : secrets[i].remoteKey = k THEN 1 ELSE 0
            /\ \A i \in EntriesOf(k) :
                  /\ statuses[i].value.remoteKey = k
                  /\ statuses[i].value.exists = gcp[k].exists

\* check has the statuses of two descriptors that share their remoteKey:
\* two queries were made and the Map has one entry.
C15_Witness ==
    /\ StatusesReturned /\ stage = "check"
    /\ Len(secrets) = 2
    /\ secrets[1].remoteKey = secrets[2].remoteKey
    /\ hist.queries = 2
    /\ Len(statuses) = 1

\* C16: once the backend has rejected a call with PERMISSION_DENIED, in
\* initialize, in a status query or in the creation of a secret, the run
\* makes no further backend call, reads no delivery object, and ends
\* with a code other than 0.
C16_PermissionDeniedIsFatal ==
    hist.deniedAt >= 0 =>
        /\ BackendCalls(hist) = hist.deniedAt
        /\ pc \notin {"create", "addVersion", "validate", "reading", "end"}
        /\ hist.reads = 0
        /\ pc = "exited" => exitCode = 1

(***************************************************************************)
(* SpecRerun: `secrets.ts generate`, run again after it has ended          *)
(***************************************************************************)
MaxRuns == 2                \* runs of the command, one after the other

InitRerun ==
    /\ InitGcp
    /\ UpsertUnused
    /\ WaitUnused
    /\ ScanUnused
    /\ GenUnused
    /\ RaceUnused
    /\ opts \in [command : {"generate"}, dryRun : {FALSE}, yes : BOOLEAN,
                configured : {TRUE}, scan : Scans]
    /\ pc = "generate"
    /\ stage = "generate"
    /\ exitCode = -1
    /\ secrets = <<>>
    /\ inflight = <<>>
    /\ statuses = <<>>
    /\ report = [exists |-> 0, missing |-> 0]
    /\ plan = [missing |-> <<>>, autoGenerate |-> <<>>, manualInput |-> <<>>]
    /\ confirm = "unasked"
    /\ secretValues = <<>>
    /\ created = NoneCreated
    /\ vreads = <<>>
    /\ validation = [success |-> FALSE, total |-> 0, synced |-> 0, ready |-> 0, errors |-> 0]
    /\ cluster = <<>>
    /\ hist = [NoHist EXCEPT !.stages = <<"generate">>]

\* The command is started again, a new process with the same options and
\* values files, against the backend as the earlier run left it.
Rerun ==
    /\ pc = "exited"
    /\ Len(hist.prior) + 1 < MaxRuns
    /\ pc' = "generate"
    /\ stage' = "generate"
    /\ exitCode' = -1
    /\ secrets' = <<>>
    /\ inflight' = <<>>
    /\ statuses' = <<>>
    /\ plan' = [missing |-> <<>>, autoGenerate |-> <<>>, manualInput |-> <<>>]
    /\ confirm' = "unasked"
    /\ secretValues' = <<>>
    /\ created' = NoneCreated
    /\ hist' = [NoHist EXCEPT
                   !.stages = <<"generate">>,
                   !.prior = Append(hist.prior,
                                    [exitCode |-> exitCode, confirm |-> confirm,
                                     missing |-> Len(plan.missing),
                                     entries |-> Len(secretValues),
                                     count |-> created.count,
                                     faults |-> hist.faults, store |-> gcp])]
    /\ UNCHANGED <<opts, report, vreads, validation, cluster,
                   gcpVars, upsertVars, waitVars, scanVars, genVars, race>>

NextRerun ==
    \/ CommandBegin
    \/ \E outcome \in Outcomes : ProviderInit(outcome)
    \/ \E j \in 1..MaxSecrets, outcome \in Outcomes : QueryGet(j, outcome)
    \/ \E j \in 1..MaxSecrets : QueryList(j)
    \/ BatchEnd
    \/ BatchFail
    \/ GenPlan
    \/ \E confirmed \in BOOLEAN : GenConfirm(confirmed)
    \/ GenAuto
    \/ GenPrompt
    \/ \E outcome \in Outcomes : GenCreate(outcome)
    \/ \E outcome \in Outcomes : GenAddVersion(outcome)
    \/ SyncEnd
    \/ Rerun

SpecRerun == InitRerun /\ [][NextRerun]_vars

\* This is the second run, after a first one that ended normally having
\* created every secret it set out to create.
AfterCleanRun ==
    /\ Len(hist.prior) = 1
    /\ hist.prior[1].exitCode = 0
    /\ hist.prior[1].confirm # "declined"
    /\ hist.prior[1].count = hist.prior[1].entries

\* C17: a second run of generate after a first run in which every
\* creation succeeded makes no mutating backend call: it finds nothing
\* missing, asks for no confirmation or value, and leaves every secret of
\* the backend with the versions it had.
C17_SecondGenerateMutatesNothing ==
    AfterCleanRun =>
        /\ hist.mutations = 0
        /\ gcp = hist.prior[1].store
        /\ pc \notin {"confirm", "values", "prompt", "create", "addVersion"}
        /\ Len(plan.missing) = 0

\* The second run has ended after checking the two secrets the first run
\* created.
C17_Witness ==
    /\ AfterCleanRun
    /\ hist.prior[1].count = 2
    /\ hist.queries = 2
    /\ pc = "exited" /\ exitCode = 0

MaxFiles == 2               \* values files found by glob

\* A value of `externalSecrets.enabled`: absent, a boolean, or the string
\* 'yes' (truthy, not a boolean).
EnabledValues == {"undefined", "true", "false", "yes"}
Truthy(e) == e \in {"true", "yes"}
IsBoolean(e) == e \in {"true", "false"}

\* Entries of `externalSecrets.secrets`; a null entry is what a dangling
\* `-` in the YAML list gives.
Item1 == [isNull |-> FALSE, remoteKey |-> "k1", generator |-> NoGenerator]
Item2 == [isNull |-> FALSE, remoteKey |-> "k2", generator |-> Generator(TRUE, "key")]
NullItem == [isNull |-> TRUE, remoteKey |-> "", generator |-> NoGenerator]
\* An entry with a name but no remoteKey.
NoKeyItem == [isNull |-> FALSE, remoteKey |-> "undefined", generator |-> NoGenerator]

NoArray == [isArray |-> FALSE, items |-> <<>>]
Array(items) == [isArray |-> TRUE, items |-> items]
SecretsValues ==
    {NoArray, Array(<<>>), Array(<<Item1>>), Array(<<Item1, Item2>>),
     Array(<<Item1, NullItem>>)}

\* An externalSecrets block; "" and "undefined" stand for an absent key.
NoBlock == [present |-> FALSE, enabled |-> "undefined", remoteKey |-> "undefined",
            secrets |-> NoArray, generator |-> NoGenerator,
            secretStore |-> "", refreshInterval |-> ""]
Block(e, k, a, store, refresh) ==
    [present |-> TRUE, enabled |-> e, remoteKey |-> k, secrets |-> a,
     generator |-> Generator(TRUE, "password"),
     secretStore |-> store, refreshInterval |-> refresh]
Blocks ==
    {Block(e, k, a, "", "") :
        e \in EnabledValues, k \in {"undefined", "k1"}, a \in SecretsValues}
    \cup {Block("true", k, a, "vault", "30m") :
            k \in {"undefined", "k1"}, a \in SecretsValues}

\* typeof value.enabled === "boolean" && typeof value.remoteKey === "string"
IsSingleSecretConfig(b) ==
    b.present /\ IsBoolean(b.enabled) /\ b.remoteKey # "undefined"

\* typeof value.enabled === "boolean" && Array.isArray(value.secrets)
\*   && value.secrets.length > 0
IsArraySecretsConfig(b) ==
    b.present /\ IsBoolean(b.enabled) /\ b.secrets.isArray /\ Len(b.secrets.items) > 0

\* mutant: the block's own secretStore is not looked at.
SecretStoreOf_Default(b) == "gcp-secretstore"

\* externalSecrets.secretStore || "gcp-secretstore"
SecretStoreOf(b) == IF b.secretStore = "" THEN "gcp-secretstore" ELSE b.secretStore

\* externalSecrets.refreshInterval || "1h"
RefreshIntervalOf(b) == IF b.refreshInterval = "" THEN "1h" ELSE b.refreshInterval

\* A value of a top-level key: a chart's configuration with its
\* externalSecrets block and namespace; `self` is the value read as a
\* block, for the root-level key `externalSecrets` of a document.
Node(b, ns) == [externalSecrets |-> b, namespace |-> ns, self |-> NoBlock]
RootBlock(b) == [externalSecrets |-> NoBlock, namespace |-> "", self |-> b]

\* A values file: its directory, its name without .yaml, the name split
\* at the hyphens, and its content: text that does not parse, a scalar, or a mapping given as its
\* entries in order.
Malformed == [kind |-> "malformed", entries |-> <<>>]
Scalar == [kind |-> "scalar", entries |-> <<>>]
Document(entries) == [kind |-> "document", entries |-> entries]
Entry(k, v) == [key |-> k, value |-> v]

EnvironmentTokens == {"staging", "production", "development", "dev", "stg", "prod"}

\* fileName.split("-"): the last part when there are several and it is a
\* recognised environment.
EnvironmentOf(parts) ==
    IF Len(parts) > 1 /\ parts[Len(parts)] \in EnvironmentTokens
    THEN parts[Len(parts)] ELSE ""

\* filePath.includes("/infrastructure/")
IsInfrastructure(f) == f.dir = "infrastructure"

DeploymentOf(f) == IF IsInfrastructure(f) THEN "infrastructure" ELSE f.name

Discovered(f, chart, b, k, g, ns) ==
    [sourceFile |-> <<f.dir, f.name>>, deployment |-> DeploymentOf(f),
     chart |-> chart, environment |-> EnvironmentOf(f.parts),
     remoteKey |-> k, generator |-> g,
     secretStore |-> SecretStoreOf(b), refreshInterval |-> RefreshIntervalOf(b),
     namespace |-> ns]

\* extractSecretsFromChart(chartName, chartConfig, ...): the secrets it
\* returns, or threw when it reads a property of a null entry.
ExtractSecretsFromChart(f, chart, b, ns) ==
    IF ~b.present \/ ~Truthy(b.enabled)
    THEN [threw |-> FALSE, secrets |-> <<>>]
    ELSE IF IsSingleSecretConfig(b)
    THEN [threw |-> FALSE,
          secrets |-> <<Discovered(f, chart, b, b.remoteKey, b.generator, ns)>>]
    ELSE IF IsArraySecretsConfig(b)
    THEN IF \E i \in DOMAIN b.secrets.items : b.secrets.items[i].isNull
         THEN [threw |-> TRUE, secrets |-> <<>>]
         ELSE [threw |-> FALSE,
               secrets |-> [i \in DOMAIN b.secrets.items |->
                               Discovered(f, chart, b, b.secrets.items[i].remoteKey,
                                          b.secrets.items[i].generator, ns)]]
    ELSE [threw |-> FALSE, secrets |-> <<>>]

\* The root-level block of a document: values.externalSecrets.
RootOf(entries) ==
    IF \E i \in DOMAIN entries : entries[i].key = "externalSecrets"
    THEN entries[CHOOSE i \in DOMAIN entries : entries[i].key = "externalSecrets"].value.self
    ELSE NoBlock

\* values.namespace; the documents here have no such root-level key.
RootNamespaceOf(entries) == ""

RECURSIVE OverCharts(_, _, _)
\* for (const [chartName, chartConfig] of Object.entries(values)): global
\* and argocd are skipped; a throw ends the loop with what was pushed.
OverCharts(f, entries, acc) ==
    IF entries = <<>> THEN [threw |-> FALSE, secrets |-> acc]
    ELSE LET e == Head(entries) IN
         IF e.key \in {"global", "argocd"} THEN OverCharts(f, Tail(entries), acc)
         ELSE LET r == ExtractSecretsFromChart(f, e.key, e.value.externalSecrets,
                                               e.value.namespace)
              IN IF r.threw THEN [threw |-> TRUE, secrets |-> acc]
                 ELSE OverCharts(f, Tail(entries), acc \o r.secrets)

\* The body of parseValuesFile's try block.
ParseBody(f) ==
    IF f.content.kind = "malformed" THEN [threw |-> TRUE, secrets |-> <<>>]
    ELSE IF f.content.kind = "scalar" THEN [threw |-> FALSE, secrets |-> <<>>]
    ELSE LET root == IF IsInfrastructure(f) /\ RootOf(f.content.entries).present
                     THEN ExtractSecretsFromChart(f, f.name, RootOf(f.content.entries),
                                                  RootNamespaceOf(f.content.entries))
                     ELSE [threw |-> FALSE, secrets |-> <<>>]
         IN IF root.threw THEN root
            ELSE OverCharts(f, f.content.entries, root.secrets)

\* mutant: no catch around the body.
ParseValuesFile_NoCatch(f) == ParseBody(f)

\* parseValuesFile(filePath): the catch ignores the error and the secrets
\* pushed before it are returned.
ParseValuesFile(f) == [threw |-> FALSE, secrets |-> ParseBody(f).secrets]

(***************************************************************************)
(* SpecScan: scanValuesFiles()                                             *)
(***************************************************************************)
SingleBlock == Block("true", "k1", NoArray, "", "")
ArrayBlock == Block("true", "undefined", Array(<<Item1, Item2>>), "vault", "30m")
NullItemBlock == Block("true", "undefined", Array(<<Item1, NullItem>>), "", "")
\* remoteKey: "" in a single block, and a list whose second entry has no
\* remoteKey.
EmptyKeyBlock == Block("true", "", NoArray, "", "")
NoKeyItemBlock == Block("true", "undefined", Array(<<Item1, NoKeyItem>>), "", "")

\* What a values file may hold: one chart `db` with any block; a reserved
\* key next to a chart; a chart whose list has a null entry before or
\* after a good chart; a root-level block alone or next to a chart.
Contents ==
    {Malformed, Scalar}
    \cup {Document(<<Entry("db", Node(b, ""))>>) : b \in Blocks}
    \cup {Document(<<Entry("global", Node(SingleBlock, "")),
                     Entry("api", Node(ArrayBlock, "apps"))>>),
          Document(<<Entry("broken", Node(NullItemBlock, "")),
                     Entry("db", Node(SingleBlock, ""))>>),
          Document(<<Entry("db", Node(SingleBlock, "")),
                     Entry("broken", Node(NullItemBlock, ""))>>),
          Document(<<Entry("externalSecrets", RootBlock(SingleBlock))>>),
          Document(<<Entry("externalSecrets", RootBlock(ArrayBlock)),
                     Entry("db", Node(SingleBlock, ""))>>),
          Document(<<Entry("web", Node(EmptyKeyBlock, ""))>>),
          Document(<<Entry("minio", Node(NoKeyItemBlock, ""))>>)}

\* What the files after the first hold.
OtherContents ==
    {Malformed, Scalar,
     Document(<<Entry("db", Node(SingleBlock, ""))>>),
     Document(<<Entry("api", Node(ArrayBlock, "apps"))>>),
     Document(<<Entry("externalSecrets", RootBlock(SingleBlock))>>)}

\* The name of the i-th file.
FileNames ==
    <<[name |-> "acme-staging", parts |-> <<"acme", "staging">>],
      [name |-> "tools", parts |-> <<"tools">>],
      [name |-> "acme-prod", parts |-> <<"acme", "prod">>],
      [name |-> "external-dns", parts |-> <<"external", "dns">>]>>

File(i, dir, content) ==
    [dir |-> dir, name |-> FileNames[i].name, parts |-> FileNames[i].parts,
     content |-> content]

Dirs == {"deployments", "infrastructure"}

\* The lists glob can give: values/deployments/*.yaml before
\* values/infrastructure/*.yaml.
Globs ==
    LET Firsts == [dir : Dirs, content : Contents \cup OtherContents]
        Rests  == UNION {[1..n -> [dir : Dirs, content : OtherContents]] :
                            n \in 0..(Min(MaxFiles, Len(FileNames)) - 1)}
    IN {g \in {<<>>} \cup {<<h>> \o t : h \in Firsts, t \in Rests} :
           \A i, j \in DOMAIN g :
               i < j => ~(g[i].dir = "infrastructure" /\ g[j].dir = "deployments")}

NoScanResults == [secrets |-> <<>>, totalSecrets |-> 0, secretsWithGenerator |-> 0]

InitScan ==
    /\ GenUnused
    /\ RaceUnused
    /\ GcpUnused
    /\ UpsertUnused
    /\ WaitUnused
    /\ SyncUnused
    /\ spc = "parsing"
    /\ \E g \in Globs : sglob = [i \in DOMAIN g |-> File(i, g[i].dir, g[i].content)]
    /\ sall = sglob
    /\ sfilter = ""
    /\ sprior = <<>>
    /\ sparsed = <<>>
    /\ sresult = NoScanResults

\* for (const file of files) allSecrets.push(...parseValuesFile(file));
\* an exception out of parseValuesFile would reject scanValuesFiles.
ParseNext ==
    /\ spc = "parsing"
    /\ Len(sparsed) < Len(sglob)
    /\ LET r == ParseValuesFile(sglob[Len(sparsed) + 1]) IN
       IF r.threw
       THEN /\ spc' = "rejected"
            /\ UNCHANGED sparsed
       ELSE /\ sparsed' = Append(sparsed, r.secrets)
            /\ UNCHANGED spc
    /\ UNCHANGED <<sglob, sresult, sall, sfilter, sprior, nonScanVars>>

RECURSIVE Concat_Prepend(_)
\* mutant: each file's secrets are put in front of the earlier ones.
Concat_Prepend(ss) == IF ss = <<>> THEN <<>> ELSE Concat_Prepend(Tail(ss)) \o Head(ss)

RECURSIVE Concat(_)
Concat(ss) == IF ss = <<>> THEN <<>> ELSE Head(ss) \o Concat(Tail(ss))

\* After the last file: the statistics and the return.
ScanReturn ==
    /\ spc = "parsing"
    /\ Len(sparsed) = Len(sglob)
    /\ LET all == Concat(sparsed) IN
       sresult' = [secrets |-> all, totalSecrets |-> Len(all),
                   secretsWithGenerator |-> Len(SelectSeq(all, CanGenerate))]
    /\ spc' = "returned"
    /\ UNCHANGED <<sglob, sparsed, sall, sfilter, sprior, nonScanVars>>

NextScan ==
    \/ ParseNext
    \/ ScanReturn

SpecScan == InitScan /\ [][NextScan]_vars

(***************************************************************************)
(* Properties of the scanner                                               *)
(***************************************************************************)
\* The parsed files that hold the one chart `db`, and that chart's block.
OneChartFiles ==
    {i \in DOMAIN sparsed :
        /\ sglob[i].content.kind = "document"
        /\ Len(sglob[i].content.entries) = 1
        /\ sglob[i].content.entries[1].key = "db"}
BlockOf(i) == sglob[i].content.entries[1].value.externalSecrets

\* The two shapes as the specification gives them: a boolean enable flag
\* with a remote-key string, and a boolean enable flag with a non-empty
\* list of entries.
HasSingleShape(b) == b.present /\ b.enabled \in {"true", "false"} /\ b.remoteKey # "undefined"
HasArrayShape(b) ==
    b.present /\ b.enabled \in {"true", "false"} /\ b.secrets.isArray /\ b.secrets.items # <<>>

\* Every descriptor of ds has the block's secretStore and refreshInterval,
\* or the defaults where the block has none.
Inherits(ds, b) ==
    \A j \in DOMAIN ds :
        /\ ds[j].secretStore = IF b.secretStore = "" THEN "gcp-secretstore" ELSE b.secretStore
        /\ ds[j].refreshInterval = IF b.refreshInterval = "" THEN "1h" ELSE b.refreshInterval

\* C19 as stated: a block of the single shape yields exactly one
\* descriptor, and a block of the array shape with N entries yields
\* exactly N, each with the block's secretStore and refreshInterval.
C19_ShapeYieldsDescriptors ==
    \A i \in OneChartFiles :
        /\ HasSingleShape(BlockOf(i)) => Len(sparsed[i]) = 1
        /\ HasArrayShape(BlockOf(i)) =>
              /\ Len(sparsed[i]) = Len(BlockOf(i).secrets.items)
              /\ Inherits(sparsed[i], BlockOf(i))

\* C19 amended: only a block whose enable flag is true yields anything;
\* if it has the single shape it yields exactly one descriptor, with its
\* remoteKey, also when it has a list of entries as well; if it has not,
\* and has the array shape with N entries none of which is null, it
\* yields exactly N, with the entries' remoteKeys in order; in both cases
\* each descriptor has the block's secretStore and refreshInterval, or
\* the defaults.  Every other block yields no descriptor.
C19_EnabledShapeYieldsDescriptors ==
    \A i \in OneChartFiles :
        LET b == BlockOf(i)
            y == sparsed[i]
        IN /\ Inherits(y, b)
           /\ IF b.enabled = "true" /\ HasSingleShape(b)
              THEN Len(y) = 1 /\ y[1].remoteKey = b.remoteKey
              ELSE IF /\ b.enabled = "true" /\ HasArrayShape(b)
                      /\ \A j \in DOMAIN b.secrets.items : ~b.secrets.items[j].isNull
              THEN /\ Len(y) = Len(b.secrets.items)
                   /\ \A j \in DOMAIN y : y[j].remoteKey = b.secrets.items[j].remoteKey
              ELSE y = <<>>

\* An enabled block with a remoteKey and a list of two entries, store
\* `vault`, has yielded its one descriptor.
C19_Witness ==
    \E i \in OneChartFiles :
        /\ BlockOf(i).enabled = "true"
        /\ BlockOf(i).remoteKey = "k1"
        /\ Len(BlockOf(i).secrets.items) = 2
        /\ Len(sparsed[i]) = 1
        /\ sparsed[i][1].secretStore = "vault"

\* The descriptors of the returned result that come from file i.
ReturnedFrom(i) ==
    SelectSeq(sresult.secrets,
              LAMBDA d : d.sourceFile = <<sglob[i].dir, sglob[i].name>>)

\* C20: a file that does not parse yields no descriptor and the scan goes
\* on: it is never rejected, it returns only after every file was parsed,
\* and the result holds, file after file, every descriptor of the other
\* files; in particular a file with one enabled single-secret chart has
\* its descriptor in the result whatever the other files are.
C20_MalformedFileIsSkipped ==
    /\ spc # "rejected"
    /\ \A i \in DOMAIN sparsed :
          sglob[i].content.kind = "malformed" => sparsed[i] = <<>>
    /\ spc = "returned" =>
          /\ Len(sparsed) = Len(sglob)
          /\ sresult.secrets = Concat(sparsed)
          /\ sresult.totalSecrets = Len(sresult.secrets)
          /\ \A i \in DOMAIN sglob :
                /\ ReturnedFrom(i) = sparsed[i]
                /\ sglob[i].content = Document(<<Entry("db", Node(SingleBlock, ""))>>)
                      => /\ Len(ReturnedFrom(i)) = 1
                         /\ ReturnedFrom(i)[1].remoteKey = "k1"
                         /\ ReturnedFrom(i)[1].chart = "db"

\* A scan of a file that does not parse followed by a file with two
\* secrets has returned the two.
C20_Witness ==
    /\ spc = "returned"
    /\ Len(sglob) = 2
    /\ sglob[1].content.kind = "malformed"
    /\ sglob[2].content.kind = "document"
    /\ sresult.totalSecrets = 2
    /\ Len(ReturnedFrom(2)) = 2

(***************************************************************************)
(* SpecFilter: scanValuesFiles({deployment}) called over the same files    *)
(***************************************************************************)
MaxScans == 2               \* calls of scanValuesFiles over the same files

\* The names the files have here: acme-staging, tools and external-dns.
FilterNames == {1, 2, 4}

\* What the files hold here: text that does not parse, one chart with a
\* single secret, and a root-level block before a chart with two secrets.
FilterContents ==
    {Malformed,
     Document(<<Entry("db", Node(SingleBlock, ""))>>),
     Document(<<Entry("externalSecrets", RootBlock(SingleBlock)),
                Entry("api", Node(ArrayBlock, "apps"))>>)}

\* options.deployment: not given, the name of a file, or a scope.
Filters == {"", "acme-staging", "tools", "external-dns", "infrastructure"}

\* allFiles: the matches of values/deployments/*.yaml, then those of
\* values/infrastructure/*.yaml; a directory holds a name once.
AllFiles ==
    LET One == [dir : Dirs, name : FilterNames, content : FilterContents]
    IN {g \in UNION {[1..n -> One] : n \in 0..MaxFiles} :
           \A i, j \in DOMAIN g :
               i < j => /\ ~(g[i].dir = "infrastructure" /\ g[j].dir = "deployments")
                        /\ ~(g[i].dir = g[j].dir /\ g[i].name = g[j].name)}

\* options?.deployment
\*   ? allFiles.filter((f) => basename(f, ".yaml") === options.deployment)
\*   : allFiles
FilesOf(all, deployment) ==
    IF deployment = "" THEN all
    ELSE SelectSeq(all, LAMBDA f : f.name = deployment)

\* What scanValuesFiles returns as secrets for the files it parses.
SecretsOf(files) ==
    Concat([i \in DOMAIN files |-> ParseValuesFile(files[i]).secrets])

InitFilter ==
    /\ GenUnused
    /\ RaceUnused
    /\ GcpUnused
    /\ UpsertUnused
    /\ WaitUnused
    /\ SyncUnused
    /\ spc = "globbed"
    /\ \E g \in AllFiles :
          sall = [i \in DOMAIN g |-> File(g[i].name, g[i].dir, g[i].content)]
    /\ sfilter \in Filters
    /\ sprior = <<>>
    /\ sglob = <<>>
    /\ sparsed = <<>>
    /\ sresult = NoScanResults

\* const files = options?.deployment ? allFiles.filter(...) : allFiles
FilterFiles ==
    /\ spc = "globbed"
    /\ sglob' = FilesOf(sall, sfilter)
    /\ spc' = "parsing"
    /\ UNCHANGED <<sparsed, sresult, sall, sfilter, sprior, nonScanVars>>

\* The next call, with the same option over the same files; allFiles and
\* allSecrets are locals of the call.
ScanAgain ==
    /\ spc = "returned"
    /\ Len(sprior) + 1 < MaxScans
    /\ sprior' = Append(sprior, sresult)
    /\ spc' = "globbed"
    /\ sglob' = <<>>
    /\ sparsed' = <<>>
    /\ sresult' = NoScanResults
    /\ UNCHANGED <<sall, sfilter, nonScanVars>>

NextFilter ==
    \/ FilterFiles
    \/ ParseNext
    \/ ScanReturn
    \/ ScanAgain

SpecFilter == InitFilter /\ [][NextFilter]_vars

Range(seq) == {seq[i] : i \in DOMAIN seq}

\* C21: a scan with a deployment filter returns only descriptors whose
\* deployment is the filter, and returns every descriptor of that
\* deployment that the scan without a filter returns.
C21_FilterSelectsScope ==
    (spc = "returned" /\ sfilter # "") =>
        /\ \A d \in Range(sresult.secrets) : d.deployment = sfilter
        /\ \A d \in Range(SecretsOf(sall)) :
              d.deployment = sfilter => d \in Range(sresult.secrets)

\* C22: every descriptor scanValuesFiles returns has a remoteKey that is
\* a non-empty string, for the single shape and for each entry of the
\* array shape.
C22_RemoteKeyNonEmpty ==
    spc = "returned" =>
        \A d \in Range(sresult.secrets) : d.remoteKey \notin {"", "undefined"}

\* Where a returned descriptor comes from: the index of its file among the
\* files parsed, the index of its chart among the document's entries (0 for
\* the root-level block, whose chart is the file's name), and the index of
\* its entry in the block's list (1 for a single block).
FileIndex(d) == CHOOSE i \in DOMAIN sglob : <<sglob[i].dir, sglob[i].name>> = d.sourceFile
EntryIndex(d) ==
    LET entries == sglob[FileIndex(d)].content.entries
    IN IF d.chart = sglob[FileIndex(d)].name THEN 0
       ELSE CHOOSE e \in DOMAIN entries : entries[e].key = d.chart
ItemIndex(d) ==
    LET entries == sglob[FileIndex(d)].content.entries
        b == IF EntryIndex(d) = 0 THEN RootOf(entries)
             ELSE entries[EntryIndex(d)].value.externalSecrets
    IN IF b.remoteKey # "undefined" THEN 1
       ELSE CHOOSE k \in DOMAIN b.secrets.items : b.secrets.items[k].remoteKey = d.remoteKey
Position(d) == <<FileIndex(d), EntryIndex(d), ItemIndex(d)>>

Precedes(a, b) ==
    \/ a[1] < b[1]
    \/ a[1] = b[1] /\ a[2] < b[2]
    \/ a[1] = b[1] /\ a[2] = b[2] /\ a[3] < b[3]

\* The shapes of the files parsed: the root-level block of a document
\* under infrastructure/, and every entry of every chart's enabled block.
ShapeCount(b) ==
    IF ~b.present THEN 0
    ELSE IF b.remoteKey # "undefined" THEN 1
    ELSE Len(b.secrets.items)
Shapes ==
    {<<i, 0, 1>> : i \in {j \in DOMAIN sglob :
                            /\ sglob[j].dir = "infrastructure"
                            /\ RootOf(sglob[j].content.entries).present}}
    \cup UNION {UNION {{<<i, e, k>> :
                          k \in 1..ShapeCount(sglob[i].content.entries[e].value.externalSecrets)} :
                       e \in DOMAIN sglob[i].content.entries} :
                i \in DOMAIN sglob}

MaxLen == 3                 \* requested lengths, and the period of a longer buffer

DefaultLength == 32

\* A string is the sequence of its characters.
CHARSET_LOWERCASE ==
    <<"a", "b", "c", "d", "e", "f", "g", "h", "i", "j", "k", "l", "m",
      "n", "o", "p", "q", "r", "s", "t", "u", "v", "w", "x", "y", "z">>
CHARSET_UPPERCASE ==
    <<"A", "B", "C", "D", "E", "F", "G", "H", "I", "J", "K", "L", "M",
      "N", "O", "P", "Q", "R", "S", "T", "U", "V", "W", "X", "Y", "Z">>
CHARSET_NUMBERS == <<"0", "1", "2", "3", "4", "5", "6", "7", "8", "9">>
CHARSET_SPECIAL ==
    <<"!", "@", "#", "$", "%", "^", "&", "*", "(", ")", "-", "_", "=",
      "+", "[", "]", "{", "}", "|", ";", ":", ",", ".", "<", ">", "?">>

\* Buffer.toString("hex") and Buffer.toString("base64")
HexDigits == CHARSET_NUMBERS \o <<"a", "b", "c", "d", "e", "f">>
Base64Alphabet == CHARSET_UPPERCASE \o CHARSET_LOWERCASE \o CHARSET_NUMBERS \o <<"+", "/">>

\* generator.length: absent, or a number.
NoLength == [given |-> FALSE, n |-> 0]
Length(n) == [given |-> TRUE, n |-> n]
Lengths == {NoLength} \cup {Length(n) : n \in -1..MaxLen}

\* generator.type: the four kinds and one the switch does not know.
GeneratorTypes == SupportedTypes \cup {"base64"}

\* Bytes randomBytes may give: the ends of the range and the values around
\* the lengths of the charsets (62, 64, 88).
ByteSamples == {0, 62, 87, 88, 255}

\* randomBytes(n): any n bytes; past MaxLen bytes the buffers considered
\* repeat their first MaxLen bytes.
RandomBytes(n) ==
    IF n <= MaxLen THEN [1..n -> ByteSamples]
    ELSE {[i \in 1..n |-> p[((i - 1) % MaxLen) + 1]] : p \in [1..MaxLen -> ByteSamples]}

\* const length = generator.length || 32
LengthOf(g) ==
    IF ~g.length.given \/ g.length.n = 0 THEN DefaultLength ELSE g.length.n

\* let charset = ""; if (lowercase) charset += CHARSET_LOWERCASE; ...
CharsetOf(options) ==
    (IF options.lowercase THEN CHARSET_LOWERCASE ELSE <<>>)
    \o (IF options.uppercase THEN CHARSET_UPPERCASE ELSE <<>>)
    \o (IF options.numbers THEN CHARSET_NUMBERS ELSE <<>>)
    \o (IF options.special THEN CHARSET_SPECIAL ELSE <<>>)

AllSets == [lowercase |-> TRUE, uppercase |-> TRUE, numbers |-> TRUE, special |-> TRUE]
NoSpecial == [lowercase |-> TRUE, uppercase |-> TRUE, numbers |-> TRUE, special |-> FALSE]

\* mutant: the index is taken modulo the length of the full charset.
GeneratePassword_FullCharset(buf, options) ==
    [i \in DOMAIN buf |-> CharsetOf(AllSets)[(buf[i] % Len(CharsetOf(AllSets))) + 1]]

\* generatePassword(length, options) over the buffer randomBytes(length)
\* gave: password += charset[randomBytesBuffer[i] % charset.length]
GeneratePassword(buf, options) ==
    [i \in DOMAIN buf |-> CharsetOf(options)[(buf[i] % Len(CharsetOf(options))) + 1]]

\* generateKey(length)
GenerateKey(buf) == GeneratePassword(buf, NoSpecial)

RECURSIVE ToHex(_)
\* randomBytes(length).toString("hex"): two digits for each byte
ToHex(buf) ==
    IF buf = <<>> THEN <<>>
    ELSE <<HexDigits[(Head(buf) \div 16) + 1], HexDigits[(Head(buf) % 16) + 1]>>
         \o ToHex(Tail(buf))

\* generateToken(length)
GenerateToken(buf) == ToHex(buf)

RECURSIVE ToBase64(_)
\* randomBytes(length).toString("base64"): four characters for each three
\* bytes, the last group padded with "=".
ToBase64(buf) ==
    IF buf = <<>> THEN <<>>
    ELSE LET b1 == buf[1]
             b2 == IF Len(buf) >= 2 THEN buf[2] ELSE 0
             b3 == IF Len(buf) >= 3 THEN buf[3] ELSE 0
             c1 == Base64Alphabet[(b1 \div 4) + 1]
             c2 == Base64Alphabet[((b1 % 4) * 16 + b2 \div 16) + 1]
             c3 == Base64Alphabet[((b2 % 16) * 4 + b3 \div 64) + 1]
             c4 == Base64Alphabet[(b3 % 64) + 1]
         IN IF Len(buf) = 1 THEN <<c1, c2, "=", "=">>
            ELSE IF Len(buf) = 2 THEN <<c1, c2, c3, "=">>
            ELSE <<c1, c2, c3, c4>> \o ToBase64(SubSeq(buf, 4, Len(buf)))

\* generateBase64String(length)
GenerateBase64String(buf) == ToBase64(buf)

\* The switch of generateSecretValue, over the buffer drawn.
SecretValueOf(type, buf) ==
    CASE type = "password" -> GeneratePassword(buf, AllSets)
      [] type = "key" -> GenerateKey(buf)
      [] type = "token" -> GenerateToken(buf)
      [] type = "string" -> GenerateBase64String(buf)

(***************************************************************************)
(* SpecGenerate: generateSecretValue(generator)                            *)
(***************************************************************************)
InitGenerate ==
    /\ GcpUnused
    /\ UpsertUnused
    /\ WaitUnused
    /\ SyncUnused
    /\ ScanUnused
    /\ RaceUnused
    /\ kpc = "called"
    /\ kgen \in [type : GeneratorTypes, length : Lengths]
    /\ kbuf = <<>>
    /\ kvalue = <<>>

\* default: throw new Error(`Unknown generator type: ...`)
UnknownType ==
    /\ kpc = "called"
    /\ kgen.type \notin SupportedTypes
    /\ kpc' = "threw"
    /\ UNCHANGED <<kgen, kbuf, kvalue, nonGenVars>>

\* randomBytes(length) with a negative size throws a RangeError.
BadSize ==
    /\ kpc = "called"
    /\ kgen.type \in SupportedTypes
    /\ LengthOf(kgen) < 0
    /\ kpc' = "threw"
    /\ UNCHANGED <<kgen, kbuf, kvalue, nonGenVars>>

\* randomBytes(length)
DrawBytes ==
    /\ kpc = "called"
    /\ kgen.type \in SupportedTypes
    /\ LengthOf(kgen) >= 0
    /\ kbuf' \in RandomBytes(LengthOf(kgen))
    /\ kpc' = "drawn"
    /\ UNCHANGED <<kgen, kvalue, nonGenVars>>

\* The characters are taken from the buffer and the string is returned.
ReturnValue ==
    /\ kpc = "drawn"
    /\ kvalue' = SecretValueOf(kgen.type, kbuf)
    /\ kpc' = "returned"
    /\ UNCHANGED <<kgen, kbuf, nonGenVars>>

NextGenerate ==
    \/ UnknownType
    \/ BadSize
    \/ DrawBytes
    \/ ReturnValue

SpecGenerate == InitGenerate /\ [][NextGenerate]_vars

\* The charset each kind declares.
DeclaredCharset(kind) ==
    CASE kind = "password" ->
             Range(CHARSET_LOWERCASE) \cup Range(CHARSET_UPPERCASE)
             \cup Range(CHARSET_NUMBERS) \cup Range(CHARSET_SPECIAL)
      [] kind = "key" ->
             Range(CHARSET_LOWERCASE) \cup Range(CHARSET_UPPERCASE) \cup Range(CHARSET_NUMBERS)
      [] kind = "token" -> Range(HexDigits)
      [] kind = "string" -> Range(Base64Alphabet) \cup {"="}

\* The length each kind declares for L: L characters, two hex digits for
\* each of L bytes, four base64 characters for each three bytes or part.
DeclaredLength(kind, L) ==
    CASE kind \in {"password", "key"} -> L
      [] kind = "token" -> 2 * L
      [] kind = "string" -> 4 * ((L + 2) \div 3)

ExplicitError(o) == ~o.found \/ ErrorMessagesOf(o) # {}
TimeoutElapsed == welapsed >= wtimeout

\* C25: the result of a poll is that of the first exit predicate that
\* holds, in the order explicit error message, both conditions true,
\* timeout elapsed: with an error message the call returns that error,
\* also when the timeout has elapsed during the poll; otherwise with both
\* conditions true it returns converged, also when the timeout has elapsed
\* during the poll; the timed-out result is returned only when the last
\* poll found neither.
C25_ExitPriority ==
    wpolls >= 1 =>
        /\ ExplicitError(wobserved) =>
              /\ wpc = "done"
              /\ ~wresult.synced /\ ~wresult.ready
              /\ wresult.error \in ErrorMessagesOf(wobserved) \cup {NotFoundMessage}
        /\ (~ExplicitError(wobserved) /\ BothTrue(wobserved)) =>
              /\ wpc = "done"
              /\ wresult = Converged
        /\ (wpc = "done" /\ wresult.error = TimeoutMessage) =>
              /\ ~ExplicitError(wobserved)
              /\ ~BothTrue(wobserved)
              /\ TimeoutElapsed

\* The timeout elapsed during a poll that read an error message, and the
\* error was returned.
C25_Witness ==
    /\ wpolls = 2
    /\ wpc = "done"
    /\ wpollAt < wtimeout
    /\ TimeoutElapsed
    /\ wobserved.found
    /\ ExplicitError(wobserved)
    /\ wresult.error = "m1"

\* The reads of validation whose object, as the cluster holds it,
\* satisfies Test.
ReadsOf(Test(_)) == {i \in DOMAIN vreads : Test(cluster[vreads[i].object])}
ReadyTrue(o) == o.found /\ o.Ready.present /\ o.Ready.status = "True"
SyncedTrue(o) == o.found /\ o.SecretSynced.present /\ o.SecretSynced.status = "True"

\* C26: an object is converged only when its Ready condition and its
\* SecretSynced condition are both true.  For every object that has not
\* both, the status is not {synced, ready} and the wait does not return
\* converged on it; in validation every status read as synced and ready is
\* that of an object with both conditions true, the synced and ready
\* counts do not exceed the numbers of objects read with that condition
\* true, and a successful result counts only objects with both true.
C26_ConvergedNeedsBoth ==
    /\ \A o \in ExternalSecrets :
          ~BothTrue(o) =>
              /\ ~(GetExternalSecretStatus(o).synced /\ GetExternalSecretStatus(o).ready)
              /\ WaitVerdict(GetExternalSecretStatus(o)) # "converged"
    /\ \A i \in DOMAIN vreads :
          (vreads[i].status.synced /\ vreads[i].status.ready)
              => BothTrue(cluster[vreads[i].object])
    /\ Validated =>
          /\ validation.synced <= Cardinality(ReadsOf(SyncedTrue))
          /\ validation.ready <= Cardinality(ReadsOf(ReadyTrue))
          /\ validation.success => validation.total <= Cardinality(ReadsOf(BothTrue))

\* A validation that read one object Ready but not SecretSynced and one
\* SecretSynced but without Ready has counted one ready and one synced,
\* and failed.
C26_Witness ==
    /\ Validated
    /\ Len(vreads) = 2
    /\ ReadsOf(BothTrue) = {}
    /\ Cardinality(ReadsOf(ReadyTrue)) = 1
    /\ Cardinality(ReadsOf(SyncedTrue)) = 1
    /\ validation.ready = 1
    /\ validation.synced = 1
    /\ ~validation.success
    /\ exitCode = 1

(***************************************************************************)
(* Further claims on checkSecrets and on the commands                      *)
(***************************************************************************)
\* C27: checkSecrets does not fail as a whole: when the query of one key
\* is rejected with an error other than not-found, then once the call is
\* over the status obtained for every other key of the batch is in the
\* Map the caller has.
C27_BatchStatusNotAtomic ==
    (BatchRejected(inflight) /\ pc # "batch") =>
        \A j \in DOMAIN inflight :
            inflight[j].phase = "done" => MapHas(statuses, inflight[j].key)

\* C28: validation accounts for every descriptor it is given: the total
\* of the result is the number of descriptors, and the statuses held by
\* the per-deployment results are the statuses read, one for each
\* descriptor, also when the descriptors of a deployment are in more than
\* one namespace.
C28_ValidationAccountsForAll ==
    Validated =>
        /\ Len(vreads) = Len(secrets)
        /\ validation.total = Len(secrets)
        /\ KeptReads(vreads) = vreads

\* A secret of the store that exists with no version.
Valueless(store, k) == store[k].exists /\ store[k].versions = <<>>

\* C29: when no key was without a version before the runs, none is after
\* a generate run has ended, whatever backend call failed in it, and every
\* key whose status a run has as exists = true holds a value.
C29_NoKeyWithoutVersion ==
    (\A k \in Keys : ~Valueless(gcp0, k)) =>
        /\ pc = "exited" => \A k \in Keys : ~Valueless(gcp, k)
        /\ \A i \in DOMAIN statuses :
              statuses[i].value.exists => ~Valueless(gcp, statuses[i].key)

(***************************************************************************)
(* SpecRace: two runs of `generate --yes` at the same time                 *)
(***************************************************************************)
\* The remote keys of the descriptors a run discovers, in file order.
RaceKeyLists == {<<"k1">>, <<"k1", "k2">>, <<"k2", "k1">>}

NewRun(keys) ==
    [pc |-> "check", keys |-> keys, statuses |-> <<>>, missing |-> <<>>,
     at |-> 1, log |-> <<>>, created |-> 0]

InitRace ==
    /\ InitGcp
    /\ UpsertUnused
    /\ WaitUnused
    /\ SyncUnused
    /\ ScanUnused
    /\ GenUnused
    /\ race \in [Runs -> {NewRun(keys) : keys \in RaceKeyLists}]

\* checkSecrets: getSecretStatus of one key of the batch resolves; the
\* queries of a batch are in flight together and resolve in any order.
RaceStatus(r, k) ==
    /\ race[r].pc = "check"
    /\ k \in Range(race[r].keys)
    /\ ~MapHas(race[r].statuses, k)
    /\ race' = [race EXCEPT ![r].statuses =
                   MapSet(@, k, IF ClientGetSecret(gcp, k) = "ok"
                                THEN SecretStatusOf(gcp, k)
                                ELSE SecretStatusMissing(k))]
    /\ UNCHANGED <<gcpVars, nonRaceVars>>

\* const missing = results.secrets.filter(s => !statuses.get(s.remoteKey)?.exists);
\* with --yes and generators only, the values are generated and the
\* creation loop begins, or the command returns when nothing is missing.
RacePlan(r) ==
    /\ race[r].pc = "check"
    /\ \A k \in Range(race[r].keys) : MapHas(race[r].statuses, k)
    /\ LET missing == SelectSeq(race[r].keys,
                                LAMBDA k : ~MapGet(race[r].statuses, k).exists)
       IN race' = [race EXCEPT ![r].missing = missing,
                               ![r].pc = IF missing = <<>> THEN "done" ELSE "create"]
    /\ UNCHANGED <<gcpVars, nonRaceVars>>

\* The loop goes to the next entry of secretValues, or ends.
NextEntryPc(run, at) == IF at > Len(run.missing) THEN "done" ELSE "create"

\* mutant: the first version is added whatever client.createSecret gave.
CreateRejected_Never(err) == FALSE

\* provider.createSecret: a rejection of client.createSecret leaves it
\* before addSecretVersion is called.
CreateRejected(err) == err # "none"

\* provider.createSecret, first await: client.createSecret; a rejection is
\* caught by the loop, logged, and the loop goes on.
RaceCreate(r) ==
    /\ race[r].pc = "create"
    /\ LET k   == race[r].missing[race[r].at]
           out == ClientCreateSecret(gcp, k)
       IN /\ gcp' = out.store
          /\ race' = IF CreateRejected(out.err)
                     THEN [race EXCEPT
                              ![r].log = Append(@, [key |-> k, result |-> out.err]),
                              ![r].at = @ + 1,
                              ![r].pc = NextEntryPc(race[r], race[r].at + 1)]
                     ELSE [race EXCEPT ![r].pc = "addVersion"]
    /\ UNCHANGED <<gcp0, nonRaceVars>>

\* provider.createSecret, second await: client.addSecretVersion;
\* created++ when it resolves.
RaceAddVersion(r) ==
    /\ race[r].pc = "addVersion"
    /\ LET k   == race[r].missing[race[r].at]
           out == ClientAddSecretVersion(gcp, k, ValueOf(r, race[r].at))
       IN /\ gcp' = out.store
          /\ race' = [race EXCEPT
                         ![r].log = Append(@, [key |-> k,
                                               result |-> IF out.err = "none"
                                                          THEN "created" ELSE out.err]),
                         ![r].created = IF out.err = "none" THEN @ + 1 ELSE @,
                         ![r].at = @ + 1,
                         ![r].pc = NextEntryPc(race[r], race[r].at + 1)]
    /\ UNCHANGED <<gcp0, nonRaceVars>>

NextRace ==
    \E r \in Runs :
        \/ \E k \in Keys : RaceStatus(r, k)
        \/ RacePlan(r)
        \/ RaceCreate(r)
        \/ RaceAddVersion(r)

SpecRace == InitRace /\ [][NextRace]_vars

\* Both runs found k missing; every run has ended.
BothMissing(k) == \A r \in Runs : k \in Range(race[r].missing)
AllEnded == \A r \in Runs : race[r].pc = "done"

\* C30: when two concurrent generate runs both find a remoteKey missing,
\* the key never has more than one version, and when both have ended it
\* has exactly one, written by the run that created it; the other run got
\* an error for that key, added no version to it, and went on: it has
\* dealt with each of its missing keys, in order.
C30_CreateRaceOneVersion ==
    \A k \in Keys :
        BothMissing(k) =>
            /\ Len(gcp[k].versions) <= 1
            /\ AllEnded =>
                  \E w \in Runs :
                      /\ gcp[k].versions = <<ValueOf(w, CHOOSE i \in DOMAIN race[w].missing :
                                                              race[w].missing[i] = k)>>
                      /\ [key |-> k, result |-> "created"] \in Range(race[w].log)
                      /\ \A l \in Runs \ {w} :
                            /\ [key |-> k, result |-> "ALREADY_EXISTS"] \in Range(race[l].log)
                            /\ [key |-> k, result |-> "created"] \notin Range(race[l].log)
                            /\ Len(race[l].log) = Len(race[l].missing)
                            /\ \A i \in DOMAIN race[l].log :
                                  race[l].log[i].key = race[l].missing[i]

\* Both runs found k1 and k2 missing; runB lost the race for k1, its first
\* key, and then created k2.
C30_Witness ==
    /\ AllEnded
    /\ BothMissing("k1")
    /\ BothMissing("k2")
    /\ race["runB"].log = <<[key |-> "k1", result |-> "ALREADY_EXISTS"],
                            [key |-> "k2", result |-> "created"]>>
    /\ gcp["k1"].versions = <<ValueOf("runA", 1)>>
    /\ gcp["k2"].versions = <<ValueOf("runB", 2)>>

====
